---- MODULE Spec2Model ----
(***************************************************************************)
(* Model of the cryptoe message type (Node.js Buffer revision): a message  *)
(* is a Buffer view `bytes` onto an arena plus an integer `end`; slices    *)
(* alias the arena, appends grow in place or reallocate.                   *)
(*                                                                         *)
(* A Buffer value is [arena, off, length]: `length` bytes of arena `arena` *)
(* starting `off` bytes into it.  The heap maps arena ids to byte          *)
(* sequences; an arena no live message references is garbage collected.    *)
(* Node's Buffer methods are modelled by what Node 0.12 / io.js (2015) do. *)
(* The string conversions are those of the typed-array revision            *)
(* (src/cryptoe.js); a JavaScript string is the sequence of its UTF-16     *)
(* code units.                                                             *)
(***************************************************************************)
EXTENDS Integers, Sequences, FiniteSets, TLC

VARIABLES heap, msgs, junk, cloneOf, hist, script, array, text,
          keys, exported, drawn

vars == <<heap, msgs, junk, cloneOf, hist, script, array, text,
          keys, exported, drawn>>

\* ------------------------------------------------------------------ bounds

\* message variables the modelled program holds
MaxMsgs == 3
\* calls the program makes when it is free to call anything
MaxCalls == 2
\* appends that follow the clone in the clone scenarios
MaxAppends == 3
\* values appended by the long-running scenario
MaxM == 3
\* calls that follow the fill in the capacity scenarios
MaxTail == 3
\* single bytes appended in the growth scenario
MaxN == 520
\* key variables the modelled program holds
MaxKeys == 2

\* capacity of the buffer behind emptyMessage()
initialCapacity == 256

Slots == 1..MaxMsgs
KeySlots == 1..MaxKeys
\* one arena per message variable, one for the array toBytes() returned and
\* one for the allocation in progress
Arenas == 1..(MaxMsgs + 2)

\* ------------------------------------------------------------ JS values

\* what an operation returned: <<tag, value>>
Err == <<"error", 0>>
Void == <<"void", 0>>
UndefRet == <<"undefined", 0>>
IntRet(v) == <<"int", v>>
MsgRet(j) == <<"msg", j>>

Min(a, b) == IF a < b THEN a ELSE b

\* A 32-bit quantity is held as two 16-bit digits: <<hi, lo>> stands for
\* hi * 65536 + lo with lo in 0..65535; hi is in -32768..32767 for a value
\* read as signed and in 0..65535 for one read as unsigned.
IntRet32(hi, lo) == <<"int32", hi, lo>>

\* the value stored by bytes[i] = v
ToUint8(r) == IF r[1] = "int" THEN r[2] % 256 ELSE 0

\* ------------------------------------------------------------ Node Buffer

\* the content of new Buffer(n): whatever the allocator's memory held
Garbage(g, n) == [k \in 1..n |-> (g * k) % 256]

\* bytes[n]
BufferGet(h, b, n) ==
    IF n >= 0 /\ n < b.length THEN IntRet(h[b.arena][b.off + n + 1]) ELSE UndefRet

\* bytes[n] = v (an index outside the buffer stores nothing)
BufferSet(h, b, n, v) ==
    IF n >= 0 /\ n < b.length
    THEN [h EXCEPT ![b.arena][b.off + n + 1] = ToUint8(v)]
    ELSE h

\* one index argument of Buffer.slice, clamped into 0..len
ClampIndex(x, len) ==
    IF x < 0 THEN (IF x + len < 0 THEN 0 ELSE x + len)
    ELSE IF x > len THEN len ELSE x

\* bytes.slice(start) and bytes.slice(start, end): a view, no copy
BufferSlice(b, args) ==
    LET s == ClampIndex(args[1], b.length)
        e0 == IF Len(args) < 2 THEN b.length ELSE ClampIndex(args[2], b.length)
        e == IF e0 < s THEN s ELSE e0
    IN [arena |-> b.arena, off |-> b.off + s, length |-> e - s]

\* the bytes bytes.toString(enc, 0, end) decodes
\* (end >>> 0 there: a negative end is past every buffer's length)
BufferWindow(h, b, end) ==
    LET e == IF end < 0 THEN b.length ELSE Min(end, b.length)
    IN [k \in 1..e |-> h[b.arena][b.off + k]]

\* src.copy(dst, 0, 0, sourceEnd) for sourceEnd >= 0
BufferCopy(h, src, dst, sourceEnd) ==
    LET n == Min(Min(sourceEnd, src.length), dst.length)
    IN [h EXCEPT ![dst.arena] =
           [k \in 1..Len(h[dst.arena]) |->
               IF k > dst.off /\ k <= dst.off + n
               THEN h[src.arena][src.off + (k - dst.off)]
               ELSE h[dst.arena][k]]]

\* readUInt16BE(0) / readInt16BE(0) / readUInt32BE(0) / readInt32BE(0)
readUInt16BE(h, b) ==
    IF 2 > b.length THEN Err
    ELSE IntRet(256 * h[b.arena][b.off + 1] + h[b.arena][b.off + 2])

\* readInt16BE without the two's-complement step
readInt16BE_Unsigned(h, b) ==
    readUInt16BE(h, b)

readInt16BE(h, b) ==
    LET u == readUInt16BE(h, b)
    IN IF u = Err THEN Err
       ELSE IF u[2] >= 32768 THEN IntRet(u[2] - 65536) ELSE u

readUInt32BE(h, b) ==
    IF 4 > b.length THEN Err
    ELSE IntRet32(256 * h[b.arena][b.off + 1] + h[b.arena][b.off + 2],
                  256 * h[b.arena][b.off + 3] + h[b.arena][b.off + 4])

\* readInt32BE without the two's-complement step
readInt32BE_Unsigned(h, b) ==
    readUInt32BE(h, b)

readInt32BE(h, b) ==
    LET u == readUInt32BE(h, b)
    IN IF u = Err THEN Err
       ELSE IF u[2] >= 32768 THEN IntRet32(u[2] - 65536, u[3]) ELSE u

\* the bytes `seq` stored at offset.. of b
BufferStore(h, b, offset, seq) ==
    [h EXCEPT ![b.arena] =
        [k \in 1..Len(h[b.arena]) |->
            IF k > b.off + offset /\ k <= b.off + offset + Len(seq)
            THEN seq[k - b.off - offset]
            ELSE h[b.arena][k]]]

\* the two bytes of the low 16 bits of v, least significant first
BE16_LittleEndian(v) ==
    <<v % 256, (v % 65536) \div 256>>

\* the two big-endian bytes of the low 16 bits of v
BE16(v) == <<(v % 65536) \div 256, v % 256>>

\* checkInt, then the big-endian store of a 16-bit value at offset (taken
\* >>> 0: a negative offset is out of range); [heap, ok]: ok is FALSE when
\* the write throws
Write16(h, b, value, offset, min, max) ==
    IF value > max \/ value < min \/ offset < 0 \/ offset + 2 > b.length
    THEN [heap |-> h, ok |-> FALSE]
    ELSE [heap |-> BufferStore(h, b, offset, BE16(value)), ok |-> TRUE]

\* the same for a 32-bit value <<hi, lo>>
Write32(h, b, value, offset, min, max) ==
    IF value[1] > max \/ value[1] < min \/ offset < 0 \/ offset + 4 > b.length
    THEN [heap |-> h, ok |-> FALSE]
    ELSE [heap |-> BufferStore(h, b, offset, BE16(value[1]) \o BE16(value[2])),
          ok |-> TRUE]

writeInt16BE(h, b, value, offset) == Write16(h, b, value, offset, -32768, 32767)
writeUInt16BE(h, b, value, offset) == Write16(h, b, value, offset, 0, 65535)
writeInt32BE(h, b, value, offset) == Write32(h, b, value, offset, -32768, 32767)
writeUInt32BE(h, b, value, offset) == Write32(h, b, value, offset, 0, 65535)

\* -------------------------------------------------------------- message

\* newMessage(bytes, end): the private constructor's object state
newMessage(bytes, end) ==
    [live |-> TRUE, bytes |-> bytes, end |-> end, reallocationCounter |-> 0]

\* a message variable that holds no message
NoMessage ==
    [live |-> FALSE, bytes |-> [arena |-> 0, off |-> 0, length |-> 0],
     end |-> 0, reallocationCounter |-> 0]

\* the outcome of a call: the heap and messages it leaves, and what it returned
St(h, ms, ret) == [heap |-> h, msgs |-> ms, ret |-> ret]

Referenced(ms) == {ms[k].bytes.arena : k \in {x \in Slots : ms[x].live}}

\* the program's array variable before toBytes() was called
NoArray == [arena |-> 0, off |-> 0, length |-> 0]

\* the arenas in use: those of the messages and that of the Buffer arr
InUse(ms, arr) == Referenced(ms) \cup {arr.arena}

\* where new Buffer(n) puts its memory: an arena nothing references
FreeArena(ms) ==
    CHOOSE a \in Arenas :
        /\ a \notin InUse(ms, array)
        /\ \A c \in Arenas : c \notin InUse(ms, array) => a <= c

\* garbage collection: an arena nothing references is gone
Keep(h, ms, arr) == [a \in Arenas |-> IF a \in InUse(ms, arr) THEN h[a] ELSE <<>>]
Collect(h, ms) == Keep(h, ms, array)

\* message.len()
len(m) == m.end

\* message.byteAt(n)
byteAt(h, m, n) ==
    IF ~(n >= 0 /\ n < m.end) THEN Err ELSE BufferGet(h, m.bytes, n)

\* message.slice(a) / message.slice(a, b): the message it returns
slice(m, args) ==
    LET b0 == IF Len(args) < 2 THEN len(m) ELSE args[2]
        b == IF b0 < 0 THEN len(m) + b0 ELSE b0
    IN newMessage(BufferSlice(m.bytes, <<args[1], b>>), b)

\* message.clone()
clone(m) == slice(m, <<0>>)

\* the elements of the Buffer arr
ArrayBytes(h, arr) == [k \in 1..arr.length |-> h[arr.arena][arr.off + k]]

\* message.toBytes(): the outcome and the Buffer it returns; new Buffer(n)
\* has length 0 for n < 0, and copy throws for a negative sourceEnd
toBytes(h, ms, i, g) ==
    LET n == IF len(ms[i]) < 0 THEN 0 ELSE len(ms[i])
        arr == [arena |-> FreeArena(ms), off |-> 0, length |-> n]
        h1 == [h EXCEPT ![arr.arena] = Garbage(g, n)]
    IN IF ms[i].end < 0 THEN [st |-> St(h, ms, Err), array |-> NoArray]
       ELSE [st |-> St(BufferCopy(h1, ms[i].bytes, arr, ms[i].end), ms,
                       <<"bytes", n>>),
             array |-> arr]

\* the bytes message.toHexString() shows
VisibleBytes(h, m) == BufferWindow(h, m.bytes, m.end)

\* the characters '0'..'9', 'a'..'f'
HexChars ==
    <<48, 49, 50, 51, 52, 53, 54, 55, 56, 57, 97, 98, 99, 100, 101, 102>>

RECURSIVE HexOf_NoPad(_)
\* a toHexString without the '0' in front of a byte below 16
HexOf_NoPad(w) ==
    IF w = <<>> THEN <<>>
    ELSE LET b == w[1]
             d == IF b < 16 THEN <<HexChars[b + 1]>>
                  ELSE <<HexChars[(b \div 16) + 1], HexChars[(b % 16) + 1]>>
         IN d \o HexOf_NoPad(Tail(w))

\* two lowercase digits per byte of w
HexOf(w) ==
    [k \in 1..(2 * Len(w)) |->
        IF k % 2 = 1 THEN HexChars[(w[(k + 1) \div 2] \div 16) + 1]
        ELSE HexChars[(w[k \div 2] % 16) + 1]]

\* message.toHexString()
toHexString(h, m) == HexOf(VisibleBytes(h, m))

\* a skip that does not clamp n to end
skip_NoClamp(m, n) ==
    [m EXCEPT !.bytes = BufferSlice(m.bytes, <<n>>), !.end = m.end - n]

\* a skip that lowers end and leaves bytes where it is
skip_EndOnly(m, n) ==
    LET n1 == IF m.end < n THEN m.end ELSE n
    IN [m EXCEPT !.end = m.end - n1]

\* message.skip(n)
skip(m, n) ==
    LET n1 == IF m.end < n THEN m.end ELSE n
    IN [m EXCEPT !.bytes = BufferSlice(m.bytes, <<n1>>), !.end = m.end - n1]

\* message.takeByte()
takeByte(h, ms, i) ==
    IF len(ms[i]) < 1 THEN St(h, ms, Err)
    ELSE LET value == byteAt(h, ms[i], 0)
         IN St(h, [ms EXCEPT ![i] = skip(ms[i], 1)], value)

\* a take without the len() check
TakeInt_Unchecked(h, ms, i, width, value) ==
    IF value = Err THEN St(h, ms, Err)
    ELSE St(h, [ms EXCEPT ![i] = skip(ms[i], width)], value)

\* the shared shape of takeInt16 / takeUint16 / takeInt32 / takeUint32
TakeInt(h, ms, i, width, value) ==
    IF len(ms[i]) < width \/ value = Err THEN St(h, ms, Err)
    ELSE St(h, [ms EXCEPT ![i] = skip(ms[i], width)], value)

takeInt16(h, ms, i) == TakeInt(h, ms, i, 2, readInt16BE(h, ms[i].bytes))
takeInt32(h, ms, i) == TakeInt(h, ms, i, 4, readInt32BE(h, ms[i].bytes))
takeUint16(h, ms, i) == TakeInt(h, ms, i, 2, readUInt16BE(h, ms[i].bytes))
takeUint32(h, ms, i) == TakeInt(h, ms, i, 4, readUInt32BE(h, ms[i].bytes))

\* message.takeMessage(n): the returned message goes to variable j
takeMessage(h, ms, i, j, n) ==
    IF len(ms[i]) < n THEN St(h, ms, Err)
    ELSE LET value == slice(ms[i], <<0, n>>)
             rest == skip(ms[i], n)
         IN St(h, [[ms EXCEPT ![i] = rest] EXCEPT ![j] = value], MsgRet(j))

\* a reallocate that moves to the fresh buffer without copying the old one
reallocate_NoCopy(h, ms, i, newBufferSize, newArraySize, g) ==
    IF newArraySize < len(ms[i]) \/ newBufferSize < newArraySize \/ ms[i].end < 0
    THEN St(h, ms, Err)
    ELSE LET a == FreeArena(ms)
             newBuffer == [arena |-> a, off |-> 0, length |-> newBufferSize]
         IN St([h EXCEPT ![a] = Garbage(g, newBufferSize)],
               [ms EXCEPT ![i].bytes = newBuffer,
                          ![i].end = newArraySize,
                          ![i].reallocationCounter = @ + 1],
               Void)

\* reallocate(newBufferSize, newArraySize); g is what the fresh memory holds
reallocate(h, ms, i, newBufferSize, newArraySize, g) ==
    IF newArraySize < len(ms[i]) \/ newBufferSize < newArraySize \/ ms[i].end < 0
    THEN St(h, ms, Err)
    ELSE LET a == FreeArena(ms)
             newBuffer == [arena |-> a, off |-> 0, length |-> newBufferSize]
             h1 == [h EXCEPT ![a] = Garbage(g, newBufferSize)]
             h2 == BufferCopy(h1, ms[i].bytes, newBuffer, ms[i].end)
         IN St(h2,
               [ms EXCEPT ![i].bytes = newBuffer,
                          ![i].end = newArraySize,
                          ![i].reallocationCounter = @ + 1],
               Void)

\* an enlargeBy that reallocates to the size needed, not to twice that
enlargeBy_Exact(h, ms, i, numberOfNewBytes, g) ==
    LET newSize == len(ms[i]) + numberOfNewBytes
    IN IF ms[i].bytes.length < newSize
       THEN reallocate(h, ms, i, newSize, newSize, g)
       ELSE St(h, [ms EXCEPT ![i].end = newSize], Void)

\* enlargeBy(numberOfNewBytes)
enlargeBy(h, ms, i, numberOfNewBytes, g) ==
    LET newSize == len(ms[i]) + numberOfNewBytes
    IN IF ms[i].bytes.length < newSize
       THEN reallocate(h, ms, i, newSize * 2, newSize, g)
       ELSE St(h, [ms EXCEPT ![i].end = newSize], Void)

\* message.appendByte(b)
appendByte(h, ms, i, b, g) ==
    LET oldend == len(ms[i])
        r == enlargeBy(h, ms, i, 1, g)
    IN IF r.ret = Err THEN r
       ELSE St(BufferSet(r.heap, r.msgs[i].bytes, oldend, IntRet(b)), r.msgs, Void)

\* the shared shape of appendInt16 / appendUint16 / appendInt32 / appendUint32:
\* enlargeBy(width), then the Buffer write w at the old end
AppendInt(r, w) ==
    IF r.ret = Err THEN r
    ELSE IF ~w.ok THEN St(r.heap, r.msgs, Err)
    ELSE St(w.heap, r.msgs, Void)

appendInt16(h, ms, i, value, g) ==
    LET r == enlargeBy(h, ms, i, 2, g)
    IN AppendInt(r, writeInt16BE(r.heap, r.msgs[i].bytes, value, len(ms[i])))

appendUint16(h, ms, i, value, g) ==
    LET r == enlargeBy(h, ms, i, 2, g)
    IN AppendInt(r, writeUInt16BE(r.heap, r.msgs[i].bytes, value, len(ms[i])))

appendInt32(h, ms, i, value, g) ==
    LET r == enlargeBy(h, ms, i, 4, g)
    IN AppendInt(r, writeInt32BE(r.heap, r.msgs[i].bytes, value, len(ms[i])))

appendUint32(h, ms, i, value, g) ==
    LET r == enlargeBy(h, ms, i, 4, g)
    IN AppendInt(r, writeUInt32BE(r.heap, r.msgs[i].bytes, value, len(ms[i])))

\* the loop of appendMessage: bytes[oldend++] = msg.byteAt(k) for k in k..l-1
RECURSIVE CopyMessage(_, _, _, _, _, _, _)
CopyMessage(h, ms, i, j, k, l, oldend) ==
    IF k >= l THEN h
    ELSE CopyMessage(BufferSet(h, ms[i].bytes, oldend + k, byteAt(h, ms[j], k)),
                     ms, i, j, k + 1, l, oldend)

\* message.appendMessage(msg), msg being the message in variable j
appendMessage(h, ms, i, j, g) ==
    LET oldend == len(ms[i])
        l == len(ms[j])
        r == enlargeBy(h, ms, i, l, g)
    IN IF r.ret = Err THEN r
       ELSE St(CopyMessage(r.heap, r.msgs, i, j, 0, l, oldend), r.msgs, Void)

\* message.appendBytes(bytes)
RECURSIVE appendBytes(_, _, _, _, _)
appendBytes(h, ms, i, arr, g) ==
    IF arr = <<>> THEN St(h, ms, Void)
    ELSE LET r == appendByte(h, ms, i, Head(arr), g)
         IN IF r.ret = Err THEN r
            ELSE appendBytes(r.heap, r.msgs, i, Tail(arr), g)

\* cryptoe.emptyMessage(), into variable j
emptyMessage(h, ms, j, g) ==
    LET a == FreeArena(ms)
        bytes == [arena |-> a, off |-> 0, length |-> initialCapacity]
    IN St([h EXCEPT ![a] = Garbage(g, initialCapacity)],
          [ms EXCEPT ![j] = newMessage(bytes, 0)], MsgRet(j))

\* cryptoe.messageFromBytes(bytes), into variable j
messageFromBytes(h, ms, j, arr) ==
    LET a == FreeArena(ms)
        buf == [arena |-> a, off |-> 0, length |-> Len(arr)]
    IN St([h EXCEPT ![a] = [k \in 1..Len(arr) |-> arr[k] % 256]],
          [ms EXCEPT ![j] = newMessage(buf, Len(arr))], MsgRet(j))

\* ------------------------------------------- strings (src/cryptoe.js)

NaN == <<"nan", 0>>
StrRet(n) == <<"str", n>>

\* parseInt(c, 16) for a string c of one character
parseInt(c) ==
    IF c >= 48 /\ c <= 57 THEN IntRet(c - 48)
    ELSE IF c >= 97 /\ c <= 102 THEN IntRet(c - 87)
    ELSE IF c >= 65 /\ c <= 70 THEN IntRet(c - 55)
    ELSE NaN

\* parseInt(str[2*i], 16)*16 + parseInt(str[2*i+1], 16)
HexPair(c1, c2) ==
    LET hi == parseInt(c1)
        lo == parseInt(c2)
    IN IF hi = NaN \/ lo = NaN THEN NaN ELSE IntRet(hi[2] * 16 + lo[2])

\* cryptoe.messageFromHexString(str), into variable j
messageFromHexString(h, ms, j, str) ==
    IF Len(str) % 2 # 0 THEN St(h, ms, Err)
    ELSE LET arr == [i \in 1..(Len(str) \div 2) |->
                        ToUint8(HexPair(str[2 * i - 1], str[2 * i]))]
         IN messageFromBytes(h, ms, j, arr)

AsciiNames == {"ascii", "ASCII"}
Utf16Names == {"utf16", "utf-16", "UTF16", "UTF-16"}

\* the bytes of new Uint16Array(codes) (the host stores the low byte first)
Utf16Bytes(str) ==
    [k \in 1..(2 * Len(str)) |->
        IF k % 2 = 1 THEN str[(k + 1) \div 2] % 256
        ELSE (str[k \div 2] \div 256) % 256]

\* cryptoe.messageFromString(str, encoding), into variable j
messageFromString(h, ms, j, str, encoding) ==
    IF encoding \in AsciiNames
    THEN messageFromBytes(h, ms, j, [i \in 1..Len(str) |-> ToUint8(IntRet(str[i]))])
    ELSE IF encoding \in Utf16Names
    THEN messageFromBytes(h, ms, j, Utf16Bytes(str))
    ELSE St(h, ms, Err)

\* message.toString(encoding): the string, or ok = FALSE when it throws.
\* For utf16 the Uint16Array is given the length bytes.byteLenght, which is
\* undefined: it runs from the start of the window to the end of the buffer
\* and its construction throws when either is at an odd distance.
toString(h, m, encoding) ==
    IF encoding \in AsciiNames
    THEN [ok |-> TRUE, str |-> VisibleBytes(h, m)]
    ELSE IF encoding \in Utf16Names
    THEN LET n == Len(h[m.bytes.arena]) - m.bytes.off
         IN IF m.bytes.off % 2 # 0 \/ n % 2 # 0 THEN [ok |-> FALSE, str |-> <<>>]
            ELSE [ok |-> TRUE,
                  str |-> [k \in 1..(n \div 2) |->
                              h[m.bytes.arena][m.bytes.off + 2 * k - 1]
                                  + 256 * h[m.bytes.arena][m.bytes.off + 2 * k]]]
    ELSE [ok |-> FALSE, str |-> <<>>]

\* ------------------- symmetric-key encryption (src/unnamed/part_001)

\* the sizes key.encrypt / key.decrypt / generateSymmetricKey are written for
KeyLength == 32
NonceLength == 12
TagLength == 16

\* an exception with a message of its own: <<"error", 0, message>>
Thrown(message) == <<"error", 0, message>>
NotEnoughData == Thrown("Message.takeMessage: not enought data")
OutOfRange == Thrown("out of range index")
InvalidKeyLength == Thrown("Invalid key length")
NotAuthentic == Thrown("Unsupported state or unable to authenticate data")
NotABuffer == Thrown("must start with number, buffer, array or string")
Failed(ret) == ret[1] = "error"

\* crypto.randomBytes(n): the n bytes an entropy source in state s yields
randomBytes(s, n) == [k \in 1..n |-> (s + 7 * k) % 256]

\* the content of the Buffer m.toBytes() returns, for m.end >= 0: the bytes
\* of the window, then whatever new Buffer(end) held
BufferOf(h, m, g) ==
    [k \in 1..m.end |->
        IF k <= m.bytes.length THEN h[m.bytes.arena][m.bytes.off + k]
        ELSE Garbage(g, m.end)[k]]

\* The AES-256-GCM engine behind crypto.createCipheriv / createDecipheriv is
\* not part of the repository.  It is modelled as a correct AEAD: a keystream
\* cipher that keeps the length, and a 16-byte tag over key, nonce and
\* ciphertext that no single changed byte leaves valid.
RECURSIVE SumBytes(_)
SumBytes(w) == IF w = <<>> THEN 0 ELSE Head(w) + SumBytes(Tail(w))

GcmKeystream(keyBytes, iv, k) ==
    (keyBytes[((k - 1) % Len(keyBytes)) + 1] + iv[((k - 1) % Len(iv)) + 1] + k) % 256

\* cipher.update(plain)
GcmEncrypt(keyBytes, iv, plain) ==
    [k \in 1..Len(plain) |-> (plain[k] + GcmKeystream(keyBytes, iv, k)) % 256]

\* decipher.update(ct)
GcmDecrypt(keyBytes, iv, ct) ==
    [k \in 1..Len(ct) |-> (ct[k] - GcmKeystream(keyBytes, iv, k)) % 256]

\* cipher.getAuthTag()
GcmTag(keyBytes, iv, ct) ==
    [t \in 1..TagLength |->
        (SumBytes(keyBytes) + SumBytes(iv) + SumBytes(ct) + t * (Len(ct) + 1)) % 256]

\* a decipher.final() that accepts every tag
GcmVerify_Unchecked(keyBytes, iv, ct, tag) ==
    TRUE

\* decipher.final() after setAuthTag(tag): does the tag verify
GcmVerify(keyBytes, iv, ct, tag) ==
    tag = GcmTag(keyBytes, iv, ct)

\* newSymmetricKey(keyBytes): the key object's state
newSymmetricKey(keyBytes) == [live |-> TRUE, keyBytes |-> keyBytes]

\* a key variable that holds no key
NoKey == [live |-> FALSE, keyBytes |-> <<>>]

\* key.asMessage(): newMessage(keyBytes) is called without `end`, so the
\* message it returns has an undefined end, and its bytes ARE the key's
\* Buffer keyBytes, not a copy: `key` is the key variable whose key object
\* it came from (0 once that variable holds another key).  The program keeps
\* the message in a variable of its own, passes it to symmetricKeyFromMessage
\* and calls appendInt16 on it.
keyMessage(k, keyBytes) == [live |-> TRUE, bytes |-> keyBytes, key |-> k]
NoKeyMessage == [live |-> FALSE, bytes |-> <<>>, key |-> 0]

\* the exported message when key variable k is assigned another key
Detach(ex, k) == IF ex.key = k THEN [ex EXCEPT !.key = 0] ELSE ex

\* appendInt16(value) on the message asMessage() returned, as it leaves the
\* Buffer keyBytes: oldend = len() is undefined, enlargeBy(2) computes
\* newSize = NaN, finds bytes.length < NaN false and sets end = NaN without
\* reallocating, and bytes.writeInt16BE(value, undefined) takes the offset
\* >>> 0, that is 0; ok is FALSE when checkInt throws
keyMessageAppendInt16(keyBytes, value) ==
    IF value > 32767 \/ value < -32768 \/ 2 > Len(keyBytes)
    THEN [ok |-> FALSE, bytes |-> keyBytes]
    ELSE [ok |-> TRUE,
          bytes |-> [k \in 1..Len(keyBytes) |->
                        IF k <= 2 THEN BE16(value)[k] ELSE keyBytes[k]]]
KeyRet(k) == <<"key", k>>

\* cryptoe.random(length), into variable j; bytes is what randomBytes drew
random(h, ms, j, bytes) == messageFromBytes(h, ms, j, bytes)

\* message.appendBuffer(buf): appendMessage(newMessage(buf, buf.length)), for
\* the content buf of a Buffer no message shares
appendBuffer(h, ms, i, buf, g) ==
    LET oldend == len(ms[i])
        r == enlargeBy(h, ms, i, Len(buf), g)
    IN IF r.ret = Err THEN r
       ELSE St(BufferStore(r.heap, r.msgs[i].bytes, oldend, buf), r.msgs, Void)

\* appendBuffer(buf) on the message in variable i of the one state in S.
\* (A bound variable's value is computed once, a LET definition's at each
\* use: the calls of a chain are bound variables.)
AppendedTo(S, i, buf, g) ==
    {appendBuffer(e.heap, e.msgs, i, b, g) : e \in S, b \in {buf}}

\* the one element of S
Only(S) == CHOOSE e \in S : TRUE

\* an encrypt that appends the tag before the ciphertext
encrypt_TagFirst(h, ms, i, j, keyBytes, iv, g) ==
    IF Len(keyBytes) # KeyLength THEN St(h, ms, InvalidKeyLength)
    ELSE IF len(ms[i]) < 0 THEN St(h, ms, OutOfRange)
    ELSE LET ct == GcmEncrypt(keyBytes, iv, BufferOf(h, ms[i], g))
             e0 == {emptyMessage(h, ms, j, g)}
             e1 == AppendedTo(e0, j, iv, g)
             e2 == AppendedTo(e1, j, GcmTag(keyBytes, iv, ct), g)
             e3 == AppendedTo(e2, j, <<>>, g)
             e4 == AppendedTo(e3, j, ct, g)
         IN Only({St(e.heap, e.msgs, MsgRet(j)) : e \in e4})

\* key.encrypt(message) of the message in variable i, into variable j; iv is
\* what random(12) drew.  createCipheriv throws for a key that is not 32
\* bytes long, message.toBytes() for a negative end.
encrypt(h, ms, i, j, keyBytes, iv, g) ==
    IF Len(keyBytes) # KeyLength THEN St(h, ms, InvalidKeyLength)
    ELSE IF len(ms[i]) < 0 THEN St(h, ms, OutOfRange)
    ELSE LET ct == GcmEncrypt(keyBytes, iv, BufferOf(h, ms[i], g))
             e0 == {emptyMessage(h, ms, j, g)}
             e1 == AppendedTo(e0, j, iv, g)
             e2 == AppendedTo(e1, j, ct, g)
             e3 == AppendedTo(e2, j, <<>>, g)
             e4 == AppendedTo(e3, j, GcmTag(keyBytes, iv, ct), g)
         IN Only({St(e.heap, e.msgs, MsgRet(j)) : e \in e4})

\* a decrypt that reads the nonce, the ciphertext and the tag off a copy
\* and leaves the caller's message as it was
decrypt_Preserving(h, ms, i, j, keyBytes, g) ==
    IF len(ms[i]) < NonceLength THEN St(h, ms, NotEnoughData)
    ELSE LET iv == slice(ms[i], <<0, NonceLength>>)
             m1 == skip(ms[i], NonceLength)
             n == len(m1) - TagLength
             encrypted == slice(m1, <<0, n>>)
             tag == skip(m1, n)
             ivBytes == BufferOf(h, iv, g)
             ct == BufferOf(h, encrypted, g)
             d0 == {emptyMessage(h, ms, j, g)}
             d1 == AppendedTo(d0, j, GcmDecrypt(keyBytes, ivBytes, ct), g)
             d2 == AppendedTo(d1, j, <<>>, g)
         IN IF len(m1) < n THEN St(h, ms, NotEnoughData)
            ELSE IF Len(keyBytes) # KeyLength THEN St(h, ms, InvalidKeyLength)
            ELSE IF len(encrypted) < 0 THEN St(h, ms, OutOfRange)
            ELSE IF ~GcmVerify(keyBytes, ivBytes, ct, BufferOf(h, tag, g))
            THEN St(h, ms, NotAuthentic)
            ELSE Only({St(d.heap, d.msgs, MsgRet(j)) : d \in d2})

\* key.decrypt(message) of the message in variable i, into variable j.  The
\* two takeMessage calls consume the caller's message: what is left of it is
\* the tag.
decrypt(h, ms, i, j, keyBytes, g) ==
    IF len(ms[i]) < NonceLength THEN St(h, ms, NotEnoughData)
    ELSE LET iv == slice(ms[i], <<0, NonceLength>>)
             m1 == skip(ms[i], NonceLength)
             n == len(m1) - TagLength
             encrypted == slice(m1, <<0, n>>)
             tag == skip(m1, n)
             ms2 == [ms EXCEPT ![i] = tag]
             ivBytes == BufferOf(h, iv, g)
             ct == BufferOf(h, encrypted, g)
             d0 == {emptyMessage(h, ms2, j, g)}
             d1 == AppendedTo(d0, j, GcmDecrypt(keyBytes, ivBytes, ct), g)
             d2 == AppendedTo(d1, j, <<>>, g)
         IN IF len(m1) < n THEN St(h, [ms EXCEPT ![i] = m1], NotEnoughData)
            ELSE IF Len(keyBytes) # KeyLength THEN St(h, ms2, InvalidKeyLength)
            ELSE IF len(encrypted) < 0 THEN St(h, ms2, OutOfRange)
            ELSE IF ~GcmVerify(keyBytes, ivBytes, ct, BufferOf(h, tag, g))
            THEN St(h, ms2, NotAuthentic)
            ELSE Only({St(d.heap, d.msgs, MsgRet(j)) : d \in d2})

\* ------------------------------------------------------- the calling program

(***************************************************************************)
(* The program holds MaxMsgs message variables and calls the exported      *)
(* constructors and the message methods on them.  It either runs one of    *)
(* the scenarios of Scripts, one call per step, or (script = <<>>) makes   *)
(* MaxCalls calls of its own choice with arguments from the small sets     *)
(* below (a new message then goes to the first unused variable, or         *)
(* replaces any one when all are in use).  hist lists the calls made: what *)
(* was called, on which variable, with which arguments, the receiver's     *)
(* len() before and after the call and what the call returned.             *)
(***************************************************************************)

\* what new Buffer(n) may hold
Seeds == {0, 165}

FreeByteArrays == {<<>>, <<17, 34>>}
FreeBytes == {<<255>>}
FreeInt16 == {<<0 - 2>>, <<32767>>}
\* -2 and 2^31 - 1 as <<hi, lo>>
FreeInt32 == {<<0 - 1, 65534>>, <<32767, 65535>>}
FreeAppendBytes == {<<7, 8>>}
FreeInts == {<<n>> : n \in {0 - 1, 0, 1, 2}}
\* '10af', 'am', 'abc'
FreeHexStrings == {<<49, 48, 97, 102>>, <<97, 109>>, <<97, 98, 99>>}
\* 'abc', 'a' followed by U+0107, the empty string
FreeStrings == {<<97, 98, 99>>, <<97, 263>>, <<>>}
FreeEncodings == {"ascii", "utf16", "utf8"}
FreeArrayWrites == {<<k, 90>> : k \in {0, 1}}
FreeSlices ==
    {<<0>>, <<1>>} \cup {<<a, b>> : a \in {0 - 1, 0, 1}, b \in {0 - 1, 0, 1, 2}}

\* what crypto.randomBytes may draw from
Entropy == {3, 200}
FreeLengths == {<<0>>, <<2>>}

Call(op, i, j, args) == [op |-> op, m |-> i, dst |-> j, args |-> args]

\* the end of a scenario
Halt == Call("halt", 0, 0, <<>>)

Scripted == script # <<>>

\* the receivers, destinations and arguments a call of `op` may have now
Receivers(op) ==
    IF ~Scripted THEN {i \in Slots : msgs[i].live}
    ELSE IF Head(script).op = op /\ Head(script).m \in Slots
              /\ msgs[Head(script).m].live
         THEN {Head(script).m} ELSE {}

Dsts(op) ==
    IF ~Scripted
    THEN (IF \E j \in Slots : ~msgs[j].live
          THEN {j \in Slots : ~msgs[j].live /\ \A k \in 1..(j - 1) : msgs[k].live}
          ELSE Slots)
    ELSE IF Head(script).op = op THEN {Head(script).dst} ELSE {}

Inputs(op, free) ==
    IF ~Scripted THEN free
    ELSE IF Head(script).op = op THEN {Head(script).args} ELSE {}

\* the key variables a call of `op` may use, and may assign to.  The
\* cryptographic functions are called in scenarios only (a scenario holds
\* the calls that make a key, a plaintext and a ciphertext); a scenario
\* names the key variable in args
KeyReceivers(op) ==
    IF Scripted /\ Head(script).op = op /\ Head(script).args[1] \in KeySlots
          /\ keys[Head(script).args[1]].live
    THEN {Head(script).args[1]} ELSE {}

KeyDsts(op) ==
    IF Scripted /\ Head(script).op = op /\ Head(script).args[1] \in KeySlots
    THEN {Head(script).args[1]} ELSE {}

\* the variable a scenario's call of `op` assigns to
ScenarioDsts(op) == IF Scripted THEN Dsts(op) ELSE {}

\* the free program makes MaxCalls calls
Budget == Scripted \/ Len(hist) < MaxCalls

\* the call enters hist, the scenario moves on
Record(op, i, j, args, ret) ==
    /\ hist' = Append(hist, [op |-> op, m |-> i, dst |-> j, args |-> args,
                             pre |-> IF i \in Slots THEN len(msgs[i]) ELSE 0,
                             post |-> IF i \in Slots THEN len(msgs'[i]) ELSE 0,
                             ret |-> ret])
    /\ script' = IF Scripted THEN Tail(script) ELSE script
    /\ junk' = junk

\* the state after a call on variable i that returned outcome r and left
\* the key variables ks, the key message ex and the last random bytes dr
CommitKeys(op, i, j, args, r, ks, ex, dr) ==
    /\ Budget
    /\ heap' = Collect(r.heap, r.msgs)
    /\ msgs' = r.msgs
    /\ array' = array
    /\ text' = text
    /\ keys' = ks
    /\ exported' = ex
    /\ drawn' = dr
    /\ Record(op, i, j, args, r.ret)

\* the state after a call that has nothing to do with keys
Commit(op, i, j, args, r) ==
    CommitKeys(op, i, j, args, r, keys, exported, drawn)

\* cloneOf[j] = i: variable j holds m.clone() (or m.slice(0)) of the message
\* m in variable i, and since then only appends were made to the two.
\* Variable j now holds a new message, a clone of i's message if c.
Relate(i, j, c) ==
    cloneOf' = [k \in Slots |->
                   IF k = j THEN (IF c /\ i # j THEN i ELSE 0)
                   ELSE IF cloneOf[k] = j THEN 0 ELSE cloneOf[k]]

\* something other than an append was done to variable i's message
Unrelate(i) ==
    cloneOf' = [k \in Slots |-> IF k = i \/ cloneOf[k] = i THEN 0 ELSE cloneOf[k]]

NoHeap == [a \in Arenas |-> <<>>]
NoMsgs == [j \in Slots |-> NoMessage]

\* -------------------------------------------------------------- scenarios

\* the two ways to make a message of length 0
EmptyConstructors ==
    {Call("emptyMessage", 0, 1, <<>>), Call("messageFromBytes", 0, 1, <<>>)}

\* values at the edges and in the middle of each integer type's range
\* (32-bit ones as <<hi, lo>>)
ByteValues == {0, 18, 128, 255}
Int16Values == {0 - 32768, 0 - 1, 0, 16666, 32767}
Uint16Values == {0, 4660, 32767, 32768, 65535}
Int32Values ==
    {<<0 - 32768, 0>>, <<0 - 3766, 20942>>, <<0 - 1, 65535>>, <<0, 0>>,
     <<32767, 65535>>}
Uint32Values ==
    {<<0, 0>>, <<4660, 22136>>, <<32767, 65535>>, <<32768, 0>>, <<65535, 65535>>}

AppendCalls(i) ==
    {Call("appendByte", i, 0, <<v>>) : v \in ByteValues}
        \cup {Call("appendInt16", i, 0, <<v>>) : v \in Int16Values}
        \cup {Call("appendUint16", i, 0, <<v>>) : v \in Uint16Values}
        \cup {Call("appendInt32", i, 0, v) : v \in Int32Values}
        \cup {Call("appendUint32", i, 0, v) : v \in Uint32Values}

TakeOps == {"takeByte", "takeInt16", "takeUint16", "takeInt32", "takeUint32"}

TakeCalls(i) == {Call(op, i, 0, <<>>) : op \in TakeOps}

\* appends and takes that leave a message empty again
Consumed ==
    {<<>>,
     <<Call("appendByte", 1, 0, <<198>>), Call("takeByte", 1, 0, <<>>)>>,
     <<Call("appendUint16", 1, 0, <<7634>>), Call("appendUint16", 1, 0, <<1>>),
       Call("takeInt32", 1, 0, <<>>)>>}

\* append one value to a message whose bytes are all consumed, take one back
AppendTakeScripts ==
    {<<c>> \o pre \o <<a, t, Halt>> :
        c \in EmptyConstructors, pre \in Consumed,
        a \in AppendCalls(1), t \in TakeCalls(1)}

\* test 'appendInt and takeInt encode/decode using big endian', any bytes
BigEndianScripts ==
    {<<c, Call("appendByte", 1, 0, <<b1>>), Call("appendByte", 1, 0, <<b2>>),
       Call(t, 1, 0, <<>>), Halt>> :
        c \in EmptyConstructors, b1 \in ByteValues, b2 \in ByteValues,
        t \in {"takeInt16", "takeUint16"}}
    \cup
    {<<c, Call("appendByte", 1, 0, <<b1>>), Call("appendByte", 1, 0, <<b2>>),
       Call("appendByte", 1, 0, <<b3>>), Call("appendByte", 1, 0, <<b4>>),
       Call(t, 1, 0, <<>>), Halt>> :
        c \in EmptyConstructors, b1 \in ByteValues, b2 \in ByteValues,
        b3 \in ByteValues, b4 \in ByteValues, t \in {"takeInt32", "takeUint32"}}
    \cup
    {<<c, Call("appendUint16", 1, 0, <<x>>), Call("takeByte", 1, 0, <<>>),
       Call("takeByte", 1, 0, <<>>), Halt>> :
        c \in EmptyConstructors, x \in Uint16Values}
    \cup
    {<<c, Call("appendUint32", 1, 0, x), Call(t, 1, 0, <<>>),
       Call(t, 1, 0, <<>>), Halt>> :
        c \in EmptyConstructors, x \in Uint32Values,
        t \in {"takeInt16", "takeUint16"}}

\* all sequences of at most n elements of S
RECURSIVE SeqsUpTo(_, _)
SeqsUpTo(S, n) ==
    IF n = 0 THEN {<<>>}
    ELSE LET P == SeqsUpTo(S, n - 1)
         IN P \cup {Append(q, x) : q \in {y \in P : Len(y) = n - 1}, x \in S}

\* test 'different messages should not interfere', for any message the API
\* hands out and any interleaving of appends: m0 is made by a constructor,
\* possibly replaced by a slice of itself, cloned into m1, and then m0 and m1
\* are appended to
CloneSources ==
    {<<c>> : c \in EmptyConstructors}
        \cup {<<Call("messageFromBytes", 0, 1, <<1, 2, 3, 4>>)>>}
        \cup {<<Call("emptyMessage", 0, 1, <<>>), Call("slice", 1, 1, <<0, b>>)>> :
                 b \in {0 - 1, 0, 1}}
        \cup {<<Call("messageFromBytes", 0, 1, <<1, 2, 3, 4>>),
                Call("slice", 1, 1, a)>> :
                 a \in {<<1>>, <<2, 0 - 1>>, <<0, 0 - 5>>, <<0, 6>>}}

CloneAppends ==
    {Call("appendByte", i, 0, <<255>>) : i \in {1, 2}}
        \cup {Call("appendInt32", i, 0, <<0, 324>>) : i \in {1, 2}}

CloneScripts ==
    {src \o <<cl>> \o apps \o <<Halt>> :
        src \in CloneSources,
        cl \in {Call("clone", 1, 2, <<>>), Call("slice", 1, 2, <<0>>)},
        apps \in SeqsUpTo(CloneAppends, MaxAppends)}

\* test 'append and take work for long time' with M values
RECURSIVE StressFill(_, _)
StressFill(i, M) ==
    IF i >= M THEN <<>>
    ELSE <<Call("appendInt32", 1, 0, <<0, i * 71>>),
           Call("clone", 1, 2, <<>>),
           Call("appendInt32", 2, 0, <<32767, 65535>>),
           Call("takeUint32", 2, 0, <<>>)>> \o StressFill(i + 1, M)

RECURSIVE StressDrain(_, _)
StressDrain(i, M) ==
    IF i >= M THEN <<>>
    ELSE <<Call("clone", 1, 2, <<>>),
           Call("appendInt32", 2, 0, <<32767, 65535>>),
           Call("takeUint32", 2, 0, <<>>),
           Call("takeInt32", 1, 0, <<>>)>> \o StressDrain(i + 1, M)

StressScripts ==
    {<<c>> \o StressFill(0, M) \o StressDrain(0, M) \o <<Halt>> :
        c \in EmptyConstructors, M \in 1..MaxM}

\* a message, a slice of it, and one call on the slice
SliceArgs ==
    {<<a>> : a \in {0 - 1, 0, 1, 2, 4}}
        \cup {<<a, b>> : a \in {0 - 1, 0, 1, 2, 4},
                         b \in {0 - 4, 0 - 1, 0, 1, 2, 3, 4}}

SliceScripts ==
    {<<Call("messageFromBytes", 0, 1, <<0, 17, 34>>), Call("slice", 1, 2, a), x,
       Halt>> :
        a \in SliceArgs,
        x \in {Call("slice", 2, 3, a2) : a2 \in SliceArgs}
                 \cup {Call("byteAt", 2, 0, <<n>>) : n \in (0 - 1)..3}
                 \cup TakeCalls(2)
                 \cup {Call("takeMessage", 2, 3, <<n>>) : n \in 0..4}
                 \cup {Call("skip", 2, 0, <<n>>) : n \in 0..4}
                 \cup {Call("toBytes", 2, 0, <<>>)}
                 \cup {Call("appendMessage", 1, 0, <<2>>),
                       Call("appendMessage", 2, 0, <<1>>),
                       Call("appendMessage", 2, 0, <<2>>)}}

\* test 'messageFromBytes works as expected': b = m.toBytes(), then one
\* more call on m, on a message sharing m's buffer, or a write to b
ToBytesScripts ==
    {<<Call("messageFromBytes", 0, 1, <<5, 76, 147>>), Call("clone", 1, 2, <<>>),
       Call("toBytes", 1, 0, <<>>), x, Halt>> :
        x \in {Call("arrayWrite", 0, 0, <<k, 90>>) : k \in 0..3}
                 \cup {Call("toBytes", i, 0, <<>>) : i \in {1, 2}}
                 \cup UNION {AppendCalls(i) \cup TakeCalls(i) : i \in {1, 2}}
                 \cup {Call("skip", i, 0, <<n>>) : i \in {1, 2}, n \in 0..4}
                 \cup {Call("takeMessage", i, 3, <<n>>) : i \in {1, 2}, n \in 0..3}
                 \cup {Call("appendMessage", i, 0, <<j>>) : i \in {1, 2}, j \in {1, 2}}
                 \cup {Call("appendBytes", i, 0, <<7, 8>>) : i \in {1, 2}}}

\* the characters around the three ranges of hex digits, and 'm'
HexAlphabet == {47, 48, 57, 58, 64, 65, 70, 71, 96, 97, 102, 103, 109}

\* '10afbcfa89', '12345', and every string of at most two characters
HexStrings ==
    {<<49, 48, 97, 102, 98, 99, 102, 97, 56, 57>>, <<49, 50, 51, 52, 53>>}
        \cup SeqsUpTo(HexAlphabet, 2)

HexBytes ==
    {<<>>, <<0>>, <<15>>, <<16>>, <<255>>, <<0, 17, 34>>, <<16, 175, 188, 250, 137>>}

\* test 'messageFromHexString produces a message of the appropriate length
\* and decodes to the same string', for other strings and in both directions
HexScripts ==
    {<<Call("messageFromHexString", 0, 1, str), Call("toHexString", 1, 0, <<>>),
       Halt>> : str \in HexStrings}
    \cup
    {<<Call("messageFromBytes", 0, 1, b), Call("toHexString", 1, 0, <<>>),
       Call("messageFromHexString", 0, 2, HexOf(b)), Halt>> : b \in HexBytes}
    \cup
    {<<Call("messageFromBytes", 0, 1, <<0, 17, 34>>), Call("slice", 1, 2, a),
       Call("toHexString", 2, 0, <<>>),
       Call("messageFromHexString", 0, 3, HexOf(SubSeq(<<0, 17, 34>>, a[1] + 1, a[2]))),
       Halt>> : a \in {<<0, 3>>, <<0, 2>>, <<1, 3>>, <<1, 2>>, <<2, 2>>}}

\* n bytes to append
Filler(n) == [k \in 1..n |-> k % 256]

\* appendBytes calls that append n bytes, at most a quarter of the starting
\* capacity at a time
RECURSIVE Fill(_)
Fill(n) ==
    LET q == initialCapacity \div 4
    IN IF n <= q THEN <<Call("appendBytes", 1, 0, Filler(n))>>
       ELSE <<Call("appendBytes", 1, 0, Filler(q))>> \o Fill(n - q)

\* test 'empty returns an empty message', then appends up to the starting
\* capacity with takes and skips between them
CapacityCalls ==
    {Call("appendByte", 1, 0, <<7>>), Call("appendUint16", 1, 0, <<0 - 2>>),
     Call("appendInt32", 1, 0, <<0, 324>>), Call("skip", 1, 0, <<2>>)}

CapacityScripts ==
    {<<Call("emptyMessage", 0, 1, <<>>)>> \o head
         \o Fill(initialCapacity - short)
         \o tail \o <<Halt>> :
        head \in {<<>>, <<Call("takeByte", 1, 0, <<>>), Call("skip", 1, 0, <<4>>)>>},
        short \in {5},
        tail \in SeqsUpTo(CapacityCalls, MaxTail)}

\* MaxN single bytes appended one after another to a fresh emptyMessage()
GrowthScript ==
    <<Call("emptyMessage", 0, 1, <<>>)>>
        \o [k \in 1..MaxN |-> Call("appendByte", 1, 0, <<k % 256>>)] \o <<Halt>>

\* test 'append and take are complementary'
ComplementaryScript ==
    <<Call("messageFromBytes", 0, 1, <<255, 238, 0, 17>>),
      Call("messageFromBytes", 0, 2, <<18, 120, 250>>),
      Call("appendMessage", 1, 0, <<2>>),
      Call("appendByte", 1, 0, <<198>>),
      Call("appendInt16", 1, 0, <<16666>>),
      Call("skip", 1, 0, <<4>>),
      Call("takeMessage", 1, 3, <<3>>),
      Call("takeByte", 1, 0, <<>>),
      Call("appendUint16", 1, 0, <<7634>>),
      Call("appendInt32", 1, 0, <<0 - 3766, 20942>>),
      Call("takeInt16", 1, 0, <<>>),
      Call("takeUint16", 1, 0, <<>>),
      Call("appendUint32", 1, 0, <<3765, 44594>>),
      Call("takeInt32", 1, 0, <<>>),
      Call("takeUint32", 1, 0, <<>>),
      Call("appendBytes", 1, 0, <<33, 44, 55>>),
      Call("takeByte", 1, 0, <<>>),
      Call("takeByte", 1, 0, <<>>),
      Call("takeByte", 1, 0, <<>>),
      Halt>>

\* ways to put a plaintext into variable 1: from bytes, from the random
\* source, by appends to an empty message, as a slice of a message
Plaintexts ==
    {<<Call("messageFromBytes", 0, 1, b)>> : b \in {<<>>, <<7>>, <<0, 17, 34>>}}
        \cup {<<Call("random", 0, 1, <<3>>)>>,
              <<Call("emptyMessage", 0, 1, <<>>), Call("appendInt16", 1, 0, <<0 - 2>>)>>}
        \cup {<<Call("messageFromBytes", 0, 2, <<0, 17, 34>>), Call("slice", 2, 1, a)>> :
                 a \in {<<0>>, <<1>>, <<0, 2>>, <<1, 3>>}}

\* tests 'works for some messages' and 'works for long messages'
RoundTripScripts ==
    {p \o <<Call("generateSymmetricKey", 0, 0, <<1>>), Call("encrypt", 1, 2, <<1>>),
            Call("decrypt", 2, 3, <<1>>), Halt>> : p \in Plaintexts}

\* test 'conversion of keys to/from messages works as expected'
KeyScripts ==
    {p \o <<Call("generateSymmetricKey", 0, 0, <<1>>), Call("asMessage", 0, 0, <<1>>),
            Call("symmetricKeyFromMessage", 0, 0, <<2>>), Call("encrypt", 1, 2, <<1>>),
            Call("decrypt", 2, 3, <<2>>), Halt>> : p \in Plaintexts}

\* a key, a nonce and plaintexts for ciphertexts written down in advance
FixtureKey == randomBytes(11, KeyLength)
FixtureNonce == randomBytes(5, NonceLength)
FixturePlains == {<<>>, <<108, 97>>}

\* nonce, ciphertext and tag of plain under keyBytes, one after the other
Sealed(keyBytes, iv, plain) ==
    LET ct == GcmEncrypt(keyBytes, iv, plain)
    IN iv \o ct \o GcmTag(keyBytes, iv, ct)

Fixtures == {Sealed(FixtureKey, FixtureNonce, plain) : plain \in FixturePlains}

\* c with one byte changed, by one or in its top bit
TamperDeltas == {1, 128}
Tampered(c) == {[c EXCEPT ![p] = (@ + d) % 256] : p \in 1..Len(c), d \in TamperDeltas}

\* c cut short
Truncated(c) == {SubSeq(c, 1, n) : n \in 0..(Len(c) - 1)}

\* tests 'works for some fixtures' and 'rejects invalid ciphertexts', and
\* the same for inputs cut short and for a key of the wrong length
FixtureScripts ==
    {<<Call("messageFromBytes", 0, 1, FixtureKey),
       Call("symmetricKeyFromMessage", 1, 0, <<1>>),
       Call("messageFromBytes", 0, 2, c), Call("decrypt", 2, 3, <<1>>), Halt>> :
        c \in Fixtures \cup UNION {Tampered(f) \cup Truncated(f) : f \in Fixtures}}
    \cup
    {<<Call("messageFromBytes", 0, 1, <<1, 2>>),
       Call("symmetricKeyFromMessage", 1, 0, <<1>>),
       x, Halt>> :
        x \in {Call("encrypt", 1, 2, <<1>>), Call("decrypt", 1, 2, <<1>>)}}

\* a key encrypts, its asMessage() is appended to, and the key decrypts
KeyMessageScripts ==
    {<<Call("messageFromBytes", 0, 1, <<7>>),
       Call("generateSymmetricKey", 0, 0, <<1>>), Call("encrypt", 1, 2, <<1>>),
       Call("asMessage", 0, 0, <<1>>), Call("asMessage.appendInt16", 0, 0, <<v>>),
       Call("decrypt", 2, 3, <<1>>), Halt>> : v \in {258, 40000}}

\* a key is imported from a message, the message is appended to or
\* consumed, and the key decrypts a fixture
ImportScripts ==
    {<<Call("messageFromBytes", 0, 1, FixtureKey),
       Call("symmetricKeyFromMessage", 1, 0, <<1>>), x,
       Call("messageFromBytes", 0, 2, c), Call("decrypt", 2, 3, <<1>>), Halt>> :
        x \in {Call("appendByte", 1, 0, <<9>>), Call("takeInt32", 1, 0, <<>>),
               Call("skip", 1, 0, <<32>>)},
        c \in Fixtures}

\* a message is appended to itself, with room behind it or without
SelfAppendScripts ==
    {<<c, Call("appendInt16", 1, 0, <<258>>), Call("appendMessage", 1, 0, <<1>>),
       Call("appendMessage", 1, 0, <<1>>), Halt>> :
        c \in {Call("emptyMessage", 0, 1, <<>>),
               Call("messageFromBytes", 0, 1, <<5>>)}}

Scripts ==
    RoundTripScripts \cup KeyScripts \cup FixtureScripts \cup KeyMessageScripts
        \cup ImportScripts \cup SelfAppendScripts \cup
    AppendTakeScripts \cup BigEndianScripts \cup CloneScripts \cup StressScripts
        \cup SliceScripts \cup ToBytesScripts \cup HexScripts \cup CapacityScripts
        \cup {ComplementaryScript, GrowthScript}

Init ==
    /\ junk \in Seeds
    /\ heap = NoHeap
    /\ msgs = NoMsgs
    /\ cloneOf = [j \in Slots |-> 0]
    /\ hist = <<>>
    /\ script \in Scripts \cup {<<>>}
    /\ array = NoArray
    /\ text = <<>>
    /\ keys = [k \in KeySlots |-> NoKey]
    /\ exported = NoKeyMessage
    /\ drawn = <<>>

EmptyMessage ==
    \E j \in Dsts("emptyMessage"), args \in Inputs("emptyMessage", {<<>>}) :
        LET r == emptyMessage(heap, msgs, j, junk)
        IN Commit("emptyMessage", 0, j, args, r) /\ Relate(0, j, FALSE)

MessageFromBytes ==
    \E j \in Dsts("messageFromBytes"),
       args \in Inputs("messageFromBytes", FreeByteArrays) :
        LET r == messageFromBytes(heap, msgs, j, args)
        IN Commit("messageFromBytes", 0, j, args, r) /\ Relate(0, j, FALSE)

Slice ==
    \E i \in Receivers("slice"), j \in Dsts("slice"),
       args \in Inputs("slice", FreeSlices) :
        LET r == St(heap, [msgs EXCEPT ![j] = slice(msgs[i], args)], MsgRet(j))
        IN Commit("slice", i, j, args, r) /\ Relate(i, j, args = <<0>>)

Clone ==
    \E i \in Receivers("clone"), j \in Dsts("clone"),
       args \in Inputs("clone", {<<>>}) :
        LET r == St(heap, [msgs EXCEPT ![j] = clone(msgs[i])], MsgRet(j))
        IN Commit("clone", i, j, args, r) /\ Relate(i, j, TRUE)

ByteAt ==
    \E i \in Receivers("byteAt"), args \in Inputs("byteAt", FreeInts) :
        LET r == St(heap, msgs, byteAt(heap, msgs[i], args[1]))
        IN Commit("byteAt", i, 0, args, r) /\ UNCHANGED cloneOf

TakeByte ==
    \E i \in Receivers("takeByte"), args \in Inputs("takeByte", {<<>>}) :
        Commit("takeByte", i, 0, args, takeByte(heap, msgs, i)) /\ Unrelate(i)

TakeInt16 ==
    \E i \in Receivers("takeInt16"), args \in Inputs("takeInt16", {<<>>}) :
        Commit("takeInt16", i, 0, args, takeInt16(heap, msgs, i)) /\ Unrelate(i)

TakeInt32 ==
    \E i \in Receivers("takeInt32"), args \in Inputs("takeInt32", {<<>>}) :
        Commit("takeInt32", i, 0, args, takeInt32(heap, msgs, i)) /\ Unrelate(i)

TakeUint16 ==
    \E i \in Receivers("takeUint16"), args \in Inputs("takeUint16", {<<>>}) :
        Commit("takeUint16", i, 0, args, takeUint16(heap, msgs, i)) /\ Unrelate(i)

TakeUint32 ==
    \E i \in Receivers("takeUint32"), args \in Inputs("takeUint32", {<<>>}) :
        Commit("takeUint32", i, 0, args, takeUint32(heap, msgs, i)) /\ Unrelate(i)

TakeMessage ==
    \E i \in Receivers("takeMessage"), j \in Dsts("takeMessage"),
       args \in Inputs("takeMessage", FreeInts) :
        LET r == takeMessage(heap, msgs, i, j, args[1])
        IN /\ Commit("takeMessage", i, j, args, r)
           /\ IF r.ret = Err THEN Unrelate(i)
              ELSE cloneOf' = [k \in Slots |->
                                  IF k \in {i, j} \/ cloneOf[k] \in {i, j} THEN 0
                                  ELSE cloneOf[k]]

Skip ==
    \E i \in Receivers("skip"), args \in Inputs("skip", FreeInts) :
        LET r == St(heap, [msgs EXCEPT ![i] = skip(msgs[i], args[1])], Void)
        IN Commit("skip", i, 0, args, r) /\ Unrelate(i)

AppendByte ==
    \E i \in Receivers("appendByte"), args \in Inputs("appendByte", FreeBytes) :
        LET r == appendByte(heap, msgs, i, args[1], junk)
        IN Commit("appendByte", i, 0, args, r) /\ UNCHANGED cloneOf

AppendInt16 ==
    \E i \in Receivers("appendInt16"), args \in Inputs("appendInt16", FreeInt16) :
        LET r == appendInt16(heap, msgs, i, args[1], junk)
        IN Commit("appendInt16", i, 0, args, r) /\ UNCHANGED cloneOf

AppendUint16 ==
    \E i \in Receivers("appendUint16"), args \in Inputs("appendUint16", FreeInt16) :
        LET r == appendUint16(heap, msgs, i, args[1], junk)
        IN Commit("appendUint16", i, 0, args, r) /\ UNCHANGED cloneOf

AppendInt32 ==
    \E i \in Receivers("appendInt32"), args \in Inputs("appendInt32", FreeInt32) :
        LET r == appendInt32(heap, msgs, i, args, junk)
        IN Commit("appendInt32", i, 0, args, r) /\ UNCHANGED cloneOf

AppendUint32 ==
    \E i \in Receivers("appendUint32"), args \in Inputs("appendUint32", FreeInt32) :
        LET r == appendUint32(heap, msgs, i, args, junk)
        IN Commit("appendUint32", i, 0, args, r) /\ UNCHANGED cloneOf

AppendMessage ==
    \E i \in Receivers("appendMessage"),
       args \in Inputs("appendMessage", {<<k>> : k \in {x \in Slots : msgs[x].live}}) :
        LET r == appendMessage(heap, msgs, i, args[1], junk)
        IN Commit("appendMessage", i, 0, args, r) /\ UNCHANGED cloneOf

AppendBytes ==
    \E i \in Receivers("appendBytes"), args \in Inputs("appendBytes", FreeAppendBytes) :
        LET r == appendBytes(heap, msgs, i, args, junk)
        IN Commit("appendBytes", i, 0, args, r) /\ UNCHANGED cloneOf

\* array = m.toBytes()
ToBytes ==
    \E i \in Receivers("toBytes"), args \in Inputs("toBytes", {<<>>}) :
        LET r == toBytes(heap, msgs, i, junk)
            arr == IF r.st.ret = Err THEN array ELSE r.array
        IN /\ Budget
           /\ heap' = Keep(r.st.heap, msgs, arr)
           /\ array' = arr
           /\ UNCHANGED <<msgs, text, cloneOf, keys, exported, drawn>>
           /\ Record("toBytes", i, 0, args, r.st.ret)

\* array[k] = v
ArrayWrite ==
    /\ array # NoArray
    /\ \E args \in Inputs("arrayWrite", FreeArrayWrites) :
           LET r == St(BufferSet(heap, array, args[1], IntRet(args[2])), msgs, Void)
           IN Commit("arrayWrite", 0, 0, args, r) /\ UNCHANGED cloneOf

\* text = m.toHexString()
ToHexString ==
    \E i \in Receivers("toHexString"), args \in Inputs("toHexString", {<<>>}) :
        LET str == toHexString(heap, msgs[i])
        IN /\ Budget
           /\ text' = str
           /\ UNCHANGED <<heap, msgs, array, cloneOf, keys, exported, drawn>>
           /\ Record("toHexString", i, 0, args, StrRet(Len(str)))

\* cryptoe.messageFromHexString(str), of a literal or of text
MessageFromHexString ==
    \E j \in Dsts("messageFromHexString"),
       args \in Inputs("messageFromHexString", FreeHexStrings \cup {text}) :
        LET r == messageFromHexString(heap, msgs, j, args)
        IN /\ Commit("messageFromHexString", 0, j, args, r)
           /\ IF r.ret = Err THEN UNCHANGED cloneOf ELSE Relate(0, j, FALSE)

\* cryptoe.messageFromString(str, encoding); args = <<encoding, str>>
MessageFromString ==
    \E j \in Dsts("messageFromString"),
       args \in Inputs("messageFromString",
                        {<<e, str>> : e \in FreeEncodings, str \in FreeStrings}) :
        LET r == messageFromString(heap, msgs, j, args[2], args[1])
        IN /\ Commit("messageFromString", 0, j, args, r)
           /\ IF r.ret = Err THEN UNCHANGED cloneOf ELSE Relate(0, j, FALSE)

\* text = m.toString(encoding)
MessageToString ==
    \E i \in Receivers("toString"),
       args \in Inputs("toString", {<<e>> : e \in FreeEncodings}) :
        LET r == toString(heap, msgs[i], args[1])
        IN /\ Budget
           /\ text' = IF r.ok THEN r.str ELSE text
           /\ UNCHANGED <<heap, msgs, array, cloneOf, keys, exported, drawn>>
           /\ Record("toString", i, 0, args,
                     IF r.ok THEN StrRet(Len(r.str)) ELSE Err)

\* m = cryptoe.random(length)
Random ==
    \E j \in ScenarioDsts("random"), args \in Inputs("random", FreeLengths),
       s \in Entropy :
        LET bytes == randomBytes(s, args[1])
            r == random(heap, msgs, j, bytes)
        IN CommitKeys("random", 0, j, args, r, keys, exported, bytes)
               /\ Relate(0, j, FALSE)

\* k = cryptoe.generateSymmetricKey(): random(32).toBytes() is the key
GenerateSymmetricKey ==
    \E k \in KeyDsts("generateSymmetricKey"), s \in Entropy :
        LET bytes == randomBytes(s, KeyLength)
        IN CommitKeys("generateSymmetricKey", 0, 0, <<k>>,
                      St(heap, msgs, KeyRet(k)),
                      [keys EXCEPT ![k] = newSymmetricKey(bytes)],
                      Detach(exported, k), bytes)
               /\ UNCHANGED cloneOf

\* k = cryptoe.symmetricKeyFromMessage(m): m.toBytes() is the key
SymmetricKeyFromMessage ==
    \E i \in Receivers("symmetricKeyFromMessage"),
       k \in KeyDsts("symmetricKeyFromMessage") :
        LET ok == len(msgs[i]) >= 0
        IN CommitKeys("symmetricKeyFromMessage", i, 0, <<k>>,
                      St(heap, msgs, IF ok THEN KeyRet(k) ELSE OutOfRange),
                      IF ok THEN [keys EXCEPT ![k] =
                                     newSymmetricKey(BufferOf(heap, msgs[i], junk))]
                      ELSE keys,
                      IF ok THEN Detach(exported, k) ELSE exported, drawn)
               /\ UNCHANGED cloneOf

\* exported = k.asMessage()
AsMessage ==
    \E k \in KeyReceivers("asMessage") :
        CommitKeys("asMessage", 0, 0, <<k>>, St(heap, msgs, <<"keymsg", k>>),
                   keys, keyMessage(k, keys[k].keyBytes), drawn)
            /\ UNCHANGED cloneOf

\* k = cryptoe.symmetricKeyFromMessage(exported): toBytes() calls
\* new Buffer(len()) with len() undefined, which throws
SymmetricKeyFromKeyMessage ==
    /\ exported.live
    /\ Scripted => Head(script).m = 0
    /\ \E k \in KeyDsts("symmetricKeyFromMessage") :
           CommitKeys("symmetricKeyFromMessage", 0, 0, <<k>>,
                      St(heap, msgs, NotABuffer), keys, exported, drawn)
               /\ UNCHANGED cloneOf

\* exported.appendInt16(value): the write lands in the Buffer the message
\* shares with the key it came from
KeyMessageAppendInt16 ==
    /\ exported.live
    /\ Scripted /\ Head(script).op = "asMessage.appendInt16"
    /\ \E args \in {Head(script).args} :
           \E r \in {keyMessageAppendInt16(exported.bytes, args[1])} :
               CommitKeys("asMessage.appendInt16", 0, 0, args,
                          St(heap, msgs, IF r.ok THEN Void ELSE Err),
                          IF exported.key \in KeySlots
                          THEN [keys EXCEPT ![exported.key].keyBytes = r.bytes]
                          ELSE keys,
                          [exported EXCEPT !.bytes = r.bytes], drawn)
                   /\ UNCHANGED cloneOf

\* e = k.encrypt(m)
Encrypt ==
    \E k \in KeyReceivers("encrypt"), i \in Receivers("encrypt"),
       j \in Dsts("encrypt"), s \in Entropy :
        \E iv \in {randomBytes(s, NonceLength)} :
            \E r \in {encrypt(heap, msgs, i, j, keys[k].keyBytes, iv, junk)} :
                /\ CommitKeys("encrypt", i, j, <<k>>, r, keys, exported, iv)
                /\ IF Failed(r.ret) THEN UNCHANGED cloneOf ELSE Relate(0, j, FALSE)

\* d = k.decrypt(m)
Decrypt ==
    \E k \in KeyReceivers("decrypt"), i \in Receivers("decrypt"),
       j \in Dsts("decrypt") :
        \E r \in {decrypt(heap, msgs, i, j, keys[k].keyBytes, junk)} :
            /\ CommitKeys("decrypt", i, j, <<k>>, r, keys, exported, drawn)
            /\ cloneOf' = [x \in Slots |->
                               IF x \in {i, j} \/ cloneOf[x] \in {i, j} THEN 0
                               ELSE cloneOf[x]]

Next ==
    \/ Random
    \/ GenerateSymmetricKey
    \/ SymmetricKeyFromMessage
    \/ AsMessage
    \/ SymmetricKeyFromKeyMessage
    \/ KeyMessageAppendInt16
    \/ Encrypt
    \/ Decrypt
    \/ ToHexString
    \/ MessageFromHexString
    \/ MessageFromString
    \/ MessageToString
    \/ ToBytes
    \/ ArrayWrite
    \/ EmptyMessage
    \/ MessageFromBytes
    \/ Slice
    \/ Clone
    \/ ByteAt
    \/ TakeByte
    \/ TakeInt16
    \/ TakeInt32
    \/ TakeUint16
    \/ TakeUint32
    \/ TakeMessage
    \/ Skip
    \/ AppendByte
    \/ AppendInt16
    \/ AppendUint16
    \/ AppendInt32
    \/ AppendUint32
    \/ AppendMessage
    \/ AppendBytes

Spec == Init /\ [][Next]_vars

\* ------------------------------ the typed-array revision (src/cryptoe.js)

(***************************************************************************)
(* In src/cryptoe.js a message is a Uint8Array `bytes` (a window of        *)
(* bytes.length bytes, bytes.byteOffset bytes into an ArrayBuffer) and a   *)
(* flag `owner`; there is no `end`.  TypedSpec is the program of that      *)
(* revision: msgs then holds [live, bytes, owner] records, bytes being     *)
(* [arena, off, length] as before, and heap holds the ArrayBuffers, which  *)
(* are zero-filled when allocated.  A Uint8Array's subarray clamps its     *)
(* arguments as Buffer.slice does, a DataView reads and writes big-endian. *)
(***************************************************************************)

\* messageFromBytes(bytes, owner): the private constructor's object state
taMessage(bytes, owner) == [live |-> TRUE, bytes |-> bytes, owner |-> owner]

\* a message variable that holds no message
NoTaMessage ==
    [live |-> FALSE, bytes |-> [arena |-> 0, off |-> 0, length |-> 0],
     owner |-> FALSE]

\* new ArrayBuffer(n)
ArrayBuffer(n) == [k \in 1..n |-> 0]

\* bytes.subarray(begin) and bytes.subarray(begin, end)
subarray(bytes, args) == BufferSlice(bytes, args)

\* message.len()
taLen(m) == m.bytes.length

\* bytes.buffer.byteLength
byteLength(h, m) == Len(h[m.bytes.arena])

\* the bytes of the message's window
Window(h, m) == [k \in 1..m.bytes.length |-> h[m.bytes.arena][m.bytes.off + k]]

\* a slice that hands on the owner flag of the message it is cut from
taSlice_Inherit(m, args) ==
    LET e0 == IF Len(args) < 2 THEN taLen(m) ELSE args[2]
        e == IF e0 < 0 THEN taLen(m) + e0 ELSE e0
    IN taMessage(subarray(m.bytes, <<args[1], e>>), m.owner)

\* message.slice(begin) / message.slice(begin, end)
taSlice(m, args) ==
    LET e0 == IF Len(args) < 2 THEN taLen(m) ELSE args[2]
        e == IF e0 < 0 THEN taLen(m) + e0 ELSE e0
    IN taMessage(subarray(m.bytes, <<args[1], e>>), FALSE)

\* message.skip(n): bytes.byteLenght is undefined, so n is never clamped
\* here; subarray clamps it
taSkip(m, n) == [m EXCEPT !.bytes = subarray(m.bytes, <<n>>)]

\* the bytes the take methods need
taWidth(op) ==
    CASE op = "takeByte" -> 1
      [] op \in {"takeInt16", "takeUint16"} -> 2
      [] OTHER -> 4

\* new DataView(bytes.buffer, bytes.byteOffset).getXxx(0)
taGet(h, m, op) ==
    CASE op = "takeByte" -> BufferGet(h, m.bytes, 0)
      [] op = "takeInt16" -> readInt16BE(h, m.bytes)
      [] op = "takeUint16" -> readUInt16BE(h, m.bytes)
      [] op = "takeInt32" -> readInt32BE(h, m.bytes)
      [] OTHER -> readUInt32BE(h, m.bytes)

\* message.takeByte() / takeInt16() / takeInt32() / takeUint16() / takeUint32()
taTake(h, ms, i, op) ==
    IF taLen(ms[i]) < taWidth(op) THEN St(h, ms, Err)
    ELSE St(h, [ms EXCEPT ![i] = taSkip(ms[i], taWidth(op))], taGet(h, ms[i], op))

\* message.takeMessage(len): the returned message goes to variable j
taTakeMessage(h, ms, i, j, n) ==
    IF taLen(ms[i]) < n THEN St(h, ms, Err)
    ELSE LET value == taSlice(ms[i], <<0, n>>)
             rest == taSkip(ms[i], n)
         IN St(h, [[ms EXCEPT ![i] = rest] EXCEPT ![j] = value], MsgRet(j))

\* reallocate(newBufferSize, newArraySize)
taReallocate(h, ms, i, newBufferSize, newArraySize) ==
    IF newArraySize < taLen(ms[i]) \/ newBufferSize < newArraySize
    THEN St(h, ms, Err)
    ELSE LET a == FreeArena(ms)
             newBytes == [arena |-> a, off |-> 0, length |-> newArraySize]
             h1 == [h EXCEPT ![a] = ArrayBuffer(newBufferSize)]
         IN St(BufferStore(h1, newBytes, 0, Window(h, ms[i])),
               [ms EXCEPT ![i].bytes = newBytes], Void)

\* an ensureSpace that reallocates to the size needed, not to twice that
ensureSpace_Exact(h, ms, i, numberOfNewBytes) ==
    LET newSize == taLen(ms[i]) + numberOfNewBytes
    IN IF ~ms[i].owner \/ byteLength(h, ms[i]) < ms[i].bytes.off + newSize
       THEN taReallocate(h, [ms EXCEPT ![i].owner = TRUE], i, newSize, newSize)
       ELSE St(h, [ms EXCEPT ![i].bytes.length = newSize], Void)

\* an ensureSpace that always reallocates
ensureSpace_Always(h, ms, i, numberOfNewBytes) ==
    LET newSize == taLen(ms[i]) + numberOfNewBytes
    IN taReallocate(h, [ms EXCEPT ![i].owner = TRUE], i, newSize * 2, newSize)

\* an ensureSpace that does not set owner
ensureSpace_NoOwner(h, ms, i, numberOfNewBytes) ==
    LET newSize == taLen(ms[i]) + numberOfNewBytes
    IN IF ~ms[i].owner \/ byteLength(h, ms[i]) < ms[i].bytes.off + newSize
       THEN taReallocate(h, ms, i, newSize * 2, newSize)
       ELSE St(h, [ms EXCEPT ![i].bytes.length = newSize], Void)

\* an ensureSpace that does not look at owner
ensureSpace_Trusting(h, ms, i, numberOfNewBytes) ==
    LET newSize == taLen(ms[i]) + numberOfNewBytes
    IN IF byteLength(h, ms[i]) < ms[i].bytes.off + newSize
       THEN taReallocate(h, [ms EXCEPT ![i].owner = TRUE], i, newSize * 2, newSize)
       ELSE St(h, [ms EXCEPT ![i].bytes.length = newSize, ![i].owner = TRUE], Void)

\* ensureSpace(numberOfNewBytes)
ensureSpace(h, ms, i, numberOfNewBytes) ==
    LET newSize == taLen(ms[i]) + numberOfNewBytes
    IN IF ~ms[i].owner \/ byteLength(h, ms[i]) < ms[i].bytes.off + newSize
       THEN taReallocate(h, [ms EXCEPT ![i].owner = TRUE], i, newSize * 2, newSize)
       ELSE St(h, [ms EXCEPT ![i].bytes.length = newSize], Void)

\* message.appendByte(b)
taAppendByte(h, ms, i, b) ==
    LET end == taLen(ms[i])
        r == ensureSpace(h, ms, i, 1)
    IN IF r.ret = Err THEN r
       ELSE St(BufferSet(r.heap, r.msgs[i].bytes, end, IntRet(b)), r.msgs, Void)

\* message.appendInt16(value), which appendUint16 is another name of
taAppendInt16(h, ms, i, value) ==
    LET end == taLen(ms[i])
        r == ensureSpace(h, ms, i, 2)
    IN IF r.ret = Err THEN r
       ELSE St(BufferStore(r.heap, r.msgs[i].bytes, end, BE16(value)), r.msgs, Void)

\* message.appendInt32(value), which appendUint32 is another name of;
\* value is <<hi, lo>>
taAppendInt32(h, ms, i, value) ==
    LET end == taLen(ms[i])
        r == ensureSpace(h, ms, i, 4)
    IN IF r.ret = Err THEN r
       ELSE St(BufferStore(r.heap, r.msgs[i].bytes, end,
                           BE16(value[1]) \o BE16(value[2])),
               r.msgs, Void)

\* the loop of appendMessage: bytes[end++] = msg.byteAt(k) for k in k..l-1
RECURSIVE taCopy(_, _, _, _, _, _, _)
taCopy(h, ms, i, j, k, l, end) ==
    IF k >= l THEN h
    ELSE taCopy(BufferSet(h, ms[i].bytes, end + k, BufferGet(h, ms[j].bytes, k)),
                ms, i, j, k + 1, l, end)

\* message.appendMessage(msg), msg being the message in variable j
taAppendMessage(h, ms, i, j) ==
    LET l == taLen(ms[j])
        end == taLen(ms[i])
        r == ensureSpace(h, ms, i, l)
    IN IF r.ret = Err THEN r
       ELSE St(taCopy(r.heap, r.msgs, i, j, 0, l, end), r.msgs, Void)

\* the state a constructor leaves: a fresh buffer of `capacity` bytes that
\* starts with `content`, and in variable j an owning message of its first
\* `length` bytes
taConstruct(h, ms, j, capacity, content, length) ==
    LET a == FreeArena(ms)
        bytes == [arena |-> a, off |-> 0, length |-> length]
        h1 == [h EXCEPT ![a] = ArrayBuffer(capacity)]
    IN St(BufferStore(h1, bytes, 0, content),
          [ms EXCEPT ![j] = taMessage(bytes, TRUE)], MsgRet(j))

\* exports.emptyMessage()
taEmptyMessage(h, ms, j) == taConstruct(h, ms, j, initialCapacity, <<>>, 0)

\* exports.messageFromString(str, encoding)
taMessageFromString(h, ms, j, str, encoding) ==
    IF encoding \in AsciiNames
    THEN taConstruct(h, ms, j, Len(str), [k \in 1..Len(str) |-> str[k] % 256], Len(str))
    ELSE IF encoding \in Utf16Names
    THEN taConstruct(h, ms, j, 2 * Len(str), Utf16Bytes(str), 2 * Len(str))
    ELSE St(h, ms, Err)

\* exports.messageFromHexString(str)
taMessageFromHexString(h, ms, j, str) ==
    IF Len(str) % 2 # 0 THEN St(h, ms, Err)
    ELSE LET n == Len(str) \div 2
             arr == [k \in 1..n |->
                        LET v == HexPair(str[2 * k - 1], str[2 * k])
                        IN IF v = NaN THEN 0 ELSE v[2]]
         IN taConstruct(h, ms, j, n, arr, n)

\* message.toString(encoding) on the typed-array message m: the string, or
\* ok = FALSE when it throws.  'ascii' iterates over bytes, the window; for
\* utf16 the Uint16Array is given the length bytes.byteLenght, which is
\* undefined, so it runs from the start of the window to the end of the
\* buffer, and its construction throws when either is at an odd distance
taToString(h, m, encoding) ==
    IF encoding \in AsciiNames
    THEN [ok |-> TRUE, str |-> Window(h, m)]
    ELSE IF encoding \in Utf16Names
    THEN LET n == byteLength(h, m) - m.bytes.off
         IN IF m.bytes.off % 2 # 0 \/ n % 2 # 0 THEN [ok |-> FALSE, str |-> <<>>]
            ELSE [ok |-> TRUE,
                  str |-> [k \in 1..(n \div 2) |->
                              h[m.bytes.arena][m.bytes.off + 2 * k - 1]
                                  + 256 * h[m.bytes.arena][m.bytes.off + 2 * k]]]
    ELSE [ok |-> FALSE, str |-> <<>>]

\* ---------------------- the calling program of the typed-array revision

\* appends a scenario makes after its cut
MaxTaMoves == 4

\* the state after a call of the typed-array revision on variable i that
\* returned outcome r and left a message in variable j
TaCommit(op, i, j, args, r) ==
    /\ Budget
    /\ heap' = Collect(r.heap, r.msgs)
    /\ msgs' = r.msgs
    /\ hist' = Append(hist, [op |-> op, m |-> i, dst |-> j, args |-> args,
                             pre |-> IF i \in Slots THEN taLen(msgs[i]) ELSE 0,
                             post |-> IF i \in Slots THEN taLen(r.msgs[i]) ELSE 0,
                             ret |-> r.ret])
    /\ script' = IF Scripted THEN Tail(script) ELSE script
    /\ UNCHANGED <<junk, cloneOf, array, text, keys, exported, drawn>>

TaTakeOps == {"takeByte", "takeInt16", "takeInt32", "takeUint16", "takeUint32"}

\* '001122'
TaHex == <<48, 48, 49, 49, 50, 50>>

\* how a scenario gets the message in variable 1: with room behind its
\* window, or without
TaSources ==
    {<<Call("emptyMessage", 0, 1, <<>>)>>,
     <<Call("messageFromHexString", 0, 1, TaHex)>>,
     <<Call("emptyMessage", 0, 1, <<>>), Call("appendInt32", 1, 0, <<1, 515>>)>>}

\* how a scenario cuts the message in variable 2 out of that in variable 1
TaCuts ==
    {<<Call("slice", 1, 2, <<1, 2>>)>>,
     <<Call("slice", 1, 2, <<0>>)>>,
     <<Call("takeMessage", 1, 2, <<2>>)>>}

\* the appends a scenario makes to the two
TaMoves ==
    {Call("appendByte", 1, 0, <<7>>), Call("appendByte", 2, 0, <<9>>),
     Call("appendInt16", 2, 0, <<0 - 2>>), Call("appendMessage", 1, 0, <<2>>)}

TaMoveSeqs == UNION {[1..n -> TaMoves] : n \in 0..MaxTaMoves}

\* the encodings a call of toString names, by their place in this list
TaEncodings == <<"ascii", "utf16", "utf8">>

\* '61006200', the bytes of 'ab' in UTF-16
TaHexAb == <<54, 49, 48, 48, 54, 50, 48, 48>>

\* a message of even length, in a buffer of its size or with room behind
\* it; possibly a slice of it, a take, a skip or an append; and toString
\* of one of the two
TaStringScripts ==
    {s \o c \o <<Call("toString", i, 0, <<e>>), Halt>> :
        s \in {<<Call("messageFromHexString", 0, 1, TaHexAb)>>,
               <<Call("emptyMessage", 0, 1, <<>>),
                 Call("appendInt32", 1, 0, <<97, 98>>)>>},
        c \in {<<>>,
               <<Call("slice", 1, 2, <<0, 2>>)>>,
               <<Call("slice", 1, 2, <<2>>)>>,
               <<Call("skip", 1, 0, <<2>>)>>,
               <<Call("takeInt16", 1, 0, <<>>)>>,
               <<Call("appendInt16", 1, 0, <<99>>)>>},
        i \in {1, 2},
        e \in DOMAIN TaEncodings}

\* a message is appended to itself, with room behind it or without
TaSelfAppendScripts ==
    {<<c, Call("appendInt16", 1, 0, <<258>>), Call("appendMessage", 1, 0, <<1>>),
       Call("appendMessage", 1, 0, <<1>>), Halt>> :
        c \in {Call("emptyMessage", 0, 1, <<>>),
               Call("messageFromHexString", 0, 1, TaHex)}}

TypedScripts ==
    {s \o c \o a \o <<Halt>> : s \in TaSources, c \in TaCuts, a \in TaMoveSeqs}
        \cup TaStringScripts \cup TaSelfAppendScripts

TypedInit ==
    /\ junk = 0
    /\ heap = NoHeap
    /\ msgs = [j \in Slots |-> NoTaMessage]
    /\ cloneOf = [j \in Slots |-> 0]
    /\ hist = <<>>
    /\ script \in TypedScripts \cup {<<>>}
    /\ array = NoArray
    /\ text = <<>>
    /\ keys = [k \in KeySlots |-> NoKey]
    /\ exported = NoKeyMessage
    /\ drawn = <<>>

TaEmptyMessage ==
    \E j \in Dsts("emptyMessage"), args \in Inputs("emptyMessage", {<<>>}) :
        TaCommit("emptyMessage", 0, j, args, taEmptyMessage(heap, msgs, j))

\* args = <<encoding, str>>
TaMessageFromString ==
    \E j \in Dsts("messageFromString"),
       args \in Inputs("messageFromString",
                        {<<e, str>> : e \in FreeEncodings, str \in FreeStrings}) :
        TaCommit("messageFromString", 0, j, args,
                 taMessageFromString(heap, msgs, j, args[2], args[1]))

TaMessageFromHexString ==
    \E j \in Dsts("messageFromHexString"),
       args \in Inputs("messageFromHexString", FreeHexStrings) :
        TaCommit("messageFromHexString", 0, j, args,
                 taMessageFromHexString(heap, msgs, j, args))

TaSlice ==
    \E i \in Receivers("slice"), j \in Dsts("slice"),
       args \in Inputs("slice", FreeSlices) :
        TaCommit("slice", i, j, args,
                 St(heap, [msgs EXCEPT ![j] = taSlice(msgs[i], args)], MsgRet(j)))

TaTakeMessage ==
    \E i \in Receivers("takeMessage"), j \in Dsts("takeMessage"),
       args \in Inputs("takeMessage", FreeInts) :
        TaCommit("takeMessage", i, j, args,
                 taTakeMessage(heap, msgs, i, j, args[1]))

TaSkip ==
    \E i \in Receivers("skip"), args \in Inputs("skip", FreeInts) :
        TaCommit("skip", i, 0, args,
                 St(heap, [msgs EXCEPT ![i] = taSkip(msgs[i], args[1])], Void))

\* takeByte, takeInt16, takeInt32, takeUint16, takeUint32
TaTake ==
    \E op \in TaTakeOps :
        \E i \in Receivers(op), args \in Inputs(op, {<<>>}) :
            TaCommit(op, i, 0, args, taTake(heap, msgs, i, op))

TaAppendByte ==
    \E i \in Receivers("appendByte"), args \in Inputs("appendByte", FreeBytes) :
        TaCommit("appendByte", i, 0, args, taAppendByte(heap, msgs, i, args[1]))

\* appendInt16 and its other name appendUint16
TaAppendInt16 ==
    \E op \in {"appendInt16", "appendUint16"} :
        \E i \in Receivers(op), args \in Inputs(op, FreeInt16) :
            TaCommit(op, i, 0, args, taAppendInt16(heap, msgs, i, args[1]))

\* appendInt32 and its other name appendUint32
TaAppendInt32 ==
    \E op \in {"appendInt32", "appendUint32"} :
        \E i \in Receivers(op), args \in Inputs(op, FreeInt32) :
            TaCommit(op, i, 0, args, taAppendInt32(heap, msgs, i, args))

TaAppendMessage ==
    \E i \in Receivers("appendMessage"),
       args \in Inputs("appendMessage", {<<k>> : k \in {x \in Slots : msgs[x].live}}) :
        TaCommit("appendMessage", i, 0, args,
                 taAppendMessage(heap, msgs, i, args[1]))

\* text = m.toString(encoding); args = <<the encoding's place in TaEncodings>>
TaToString ==
    \E i \in Receivers("toString"),
       args \in Inputs("toString", {<<e>> : e \in DOMAIN TaEncodings}) :
        \E r \in {taToString(heap, msgs[i], TaEncodings[args[1]])} :
           /\ Budget
           /\ text' = IF r.ok THEN r.str ELSE text
           /\ hist' = Append(hist, [op |-> "toString", m |-> i, dst |-> 0,
                                    args |-> args,
                                    pre |-> taLen(msgs[i]),
                                    post |-> taLen(msgs[i]),
                                    ret |-> IF r.ok THEN StrRet(Len(r.str))
                                            ELSE Err])
           /\ script' = IF Scripted THEN Tail(script) ELSE script
           /\ UNCHANGED <<heap, msgs, junk, cloneOf, array, keys, exported, drawn>>

TypedNext ==
    \/ TaEmptyMessage
    \/ TaMessageFromString
    \/ TaMessageFromHexString
    \/ TaSlice
    \/ TaTakeMessage
    \/ TaSkip
    \/ TaTake
    \/ TaAppendByte
    \/ TaAppendInt16
    \/ TaAppendInt32
    \/ TaAppendMessage
    \/ TaToString

TypedSpec == TypedInit /\ [][TypedNext]_vars

\* ----------------------------------------------------------------- claims

Last(h) == h[Len(h)]

\* the k-th call before the latest one (0: the latest)
Ago(k) == hist[Len(hist) - k]

AppendOps ==
    {"appendByte", "appendInt16", "appendUint16", "appendInt32", "appendUint32",
     "appendMessage", "appendBytes"}

\* one of variables i and j holds the other's clone
Partner(i, j) == i # j /\ (cloneOf[i] = j \/ cloneOf[j] = i)

\* the latest step appended to variable i's message
Appended(i) ==
    /\ Len(hist') = Len(hist) + 1
    /\ Last(hist').op \in AppendOps
    /\ Last(hist').m = i

\* C1: for m1 = m0.clone() (or m0.slice(0)), every append to one of m0 and
\* m1 leaves the other's len() and visible bytes as they were before it.
C1_CloneNonInterference ==
    [][\A i \in Slots, j \in Slots :
          (Partner(i, j) /\ Appended(i))
              => /\ len(msgs'[j]) = len(msgs[j])
                 /\ VisibleBytes(heap', msgs'[j]) = VisibleBytes(heap, msgs[j])]_vars

\* the take that reads back what an append wrote
TakeOf ==
    [appendByte |-> "takeByte", appendInt16 |-> "takeInt16",
     appendUint16 |-> "takeUint16", appendInt32 |-> "takeInt32",
     appendUint32 |-> "takeUint32"]

\* args is a value of the integer type that append `op` writes
InRange(op, args) ==
    CASE op = "appendByte" -> args[1] >= 0 /\ args[1] <= 255
      [] op = "appendInt16" -> args[1] >= 0 - 32768 /\ args[1] <= 32767
      [] op = "appendUint16" -> args[1] >= 0 /\ args[1] <= 65535
      [] op = "appendInt32" ->
            args[1] >= 0 - 32768 /\ args[1] <= 32767 /\ args[2] \in 0..65535
      [] op = "appendUint32" -> args[1] \in 0..65535 /\ args[2] \in 0..65535
      [] OTHER -> FALSE

\* the value args as a take returns it
Value(op, args) ==
    IF op \in {"appendInt32", "appendUint32"} THEN IntRet32(args[1], args[2])
    ELSE IntRet(args[1])

\* the latest two calls are an append to a message of length 0 and a take
\* from the same message
AppendThenTake(a, t) ==
    /\ Len(hist) >= 2
    /\ Ago(1).op = a /\ Ago(0).op = t
    /\ Ago(1).m = Ago(0).m
    /\ Ago(1).pre = 0
    /\ InRange(a, Ago(1).args)

\* C2: on a message with len() = 0, appendX(v) for a value v of X's range
\* followed by takeX() returns exactly v and leaves len() = 0.
C2_AppendTakeInverse ==
    \A a \in DOMAIN TakeOf :
        AppendThenTake(a, TakeOf[a])
            => /\ Ago(1).ret = Void
               /\ Ago(0).ret = Value(a, Ago(1).args)
               /\ len(msgs[Ago(0).m]) = 0

\* -1 appended as a signed 32-bit integer and taken back, after earlier
\* appends and takes on the same message
C2_Witness ==
    /\ Len(hist) >= 6
    /\ AppendThenTake("appendInt32", "takeInt32")
    /\ Ago(1).args = <<0 - 1, 65535>>
    /\ Ago(0).ret = IntRet32(0 - 1, 65535)
    /\ Ago(2).op = "takeInt32" /\ Ago(2).ret # Err

\* C3: appendUint32(v) then takeInt32() returns v - 2^32 for v >= 2^31 and v
\* otherwise; appendUint16(v) then takeInt16() returns v - 2^16 for
\* v >= 2^15 and v otherwise.
C3_SignedUnsignedShareBits ==
    /\ AppendThenTake("appendUint32", "takeInt32")
         => Ago(0).ret =
                IF Ago(1).args[1] >= 32768
                THEN IntRet32(Ago(1).args[1] - 65536, Ago(1).args[2])
                ELSE IntRet32(Ago(1).args[1], Ago(1).args[2])
    /\ AppendThenTake("appendUint16", "takeInt16")
         => Ago(0).ret =
                IF Ago(1).args[1] >= 32768 THEN IntRet(Ago(1).args[1] - 65536)
                ELSE IntRet(Ago(1).args[1])

\* 0xFFFFFFFF appended unsigned reads back as -1
C3_Witness ==
    /\ AppendThenTake("appendUint32", "takeInt32")
    /\ Ago(1).args = <<65535, 65535>>
    /\ Ago(0).ret = IntRet32(0 - 1, 65535)

\* the latest three calls were made on one message, the first of them when
\* its len() was 0
ThreeOn(a, b, c) ==
    /\ Len(hist) >= 3
    /\ Ago(2).op = a /\ Ago(1).op = b /\ Ago(0).op = c
    /\ Ago(2).m = Ago(1).m /\ Ago(1).m = Ago(0).m
    /\ Ago(2).pre = 0

\* the latest five calls are four appendByte calls, the first on a message
\* of length 0, and c, all on one message
FourBytesThen(c) ==
    /\ Len(hist) >= 5
    /\ \A k \in 1..4 : Ago(k).op = "appendByte" /\ Ago(k).m = Ago(0).m
                          /\ InRange("appendByte", Ago(k).args)
    /\ Ago(4).pre = 0
    /\ Ago(0).op = c

\* C4: integers are stored most significant byte first and fields compose
\* byte-wise: appendByte(b1), appendByte(b2), takeUint16() returns
\* 256*b1 + b2; four appendByte calls then takeUint32() return
\* ((b1*256 + b2)*256 + b3)*256 + b4; appendUint16(x) then two takeByte()
\* return x div 256 and x mod 256; appendUint32(x) then two takeUint16()
\* return the high and the low 16 bits of x.
C4_BigEndianComposition ==
    /\ (/\ ThreeOn("appendByte", "appendByte", "takeUint16")
        /\ InRange("appendByte", Ago(2).args)
        /\ InRange("appendByte", Ago(1).args))
         => Ago(0).ret = IntRet(256 * Ago(2).args[1] + Ago(1).args[1])
    /\ FourBytesThen("takeUint32")
         => Ago(0).ret = IntRet32(256 * Ago(4).args[1] + Ago(3).args[1],
                                  256 * Ago(2).args[1] + Ago(1).args[1])
    /\ (/\ ThreeOn("appendUint16", "takeByte", "takeByte")
        /\ InRange("appendUint16", Ago(2).args))
         => /\ Ago(1).ret = IntRet(Ago(2).args[1] \div 256)
            /\ Ago(0).ret = IntRet(Ago(2).args[1] % 256)
    /\ (/\ ThreeOn("appendUint32", "takeUint16", "takeUint16")
        /\ InRange("appendUint32", Ago(2).args))
         => /\ Ago(1).ret = IntRet(Ago(2).args[1])
            /\ Ago(0).ret = IntRet(Ago(2).args[2])

\* 0x1234 appended as one 16-bit field and read back as the bytes 0x12, 0x34
C4_Witness ==
    /\ ThreeOn("appendUint16", "takeByte", "takeByte")
    /\ Ago(2).args = <<4660>>
    /\ Ago(1).ret = IntRet(18)
    /\ Ago(0).ret = IntRet(52)

\* the bytes a take needs
Needs(t) ==
    CASE t.op = "takeByte" -> 1
      [] t.op \in {"takeInt16", "takeUint16"} -> 2
      [] t.op \in {"takeInt32", "takeUint32"} -> 4
      [] t.op = "takeMessage" -> t.args[1]

\* the latest step is a take from a message shorter than the take needs
ShortTake ==
    /\ Len(hist') = Len(hist) + 1
    /\ Last(hist').op \in TakeOps \cup {"takeMessage"}
    /\ Last(hist').pre < Needs(Last(hist'))

\* C5: a take from a message whose len() is smaller than the byte count the
\* take needs fails, and leaves the message's len() and visible bytes as they
\* were.
C5_TakeBoundsNoPartialConsumption ==
    [][ShortTake =>
          LET i == Last(hist').m
          IN /\ Last(hist').ret = Err
             /\ len(msgs'[i]) = len(msgs[i])
             /\ VisibleBytes(heap', msgs'[i]) = VisibleBytes(heap, msgs[i])
             /\ msgs' = msgs]_vars

\* takeInt32 has just failed on a message that holds two bytes, which it
\* still holds
C5_Witness ==
    /\ hist # <<>>
    /\ Last(hist).op = "takeInt32"
    /\ Last(hist).pre = 2
    /\ Last(hist).ret = Err
    /\ len(msgs[Last(hist).m]) = 2
    /\ Len(VisibleBytes(heap, msgs[Last(hist).m])) = 2

\* the calls of kind op made on variable 1 so far, in order
CallsOn(op) == SelectSeq(hist, LAMBDA r : r.op = op /\ r.m = 1)

\* so far the program made an empty message m, appended 32-bit values to it
\* and took 32-bit values from it, and besides only cloned m and appended to
\* and took from the clone
CloneStress ==
    /\ hist # <<>>
    /\ hist[1].op \in {"emptyMessage", "messageFromBytes"}
    /\ hist[1].args = <<>> /\ hist[1].dst = 1
    /\ \A k \in 2..Len(hist) :
          \/ /\ hist[k].op = "appendInt32" /\ hist[k].m = 1
             /\ InRange("appendInt32", hist[k].args)
          \/ hist[k].op = "takeInt32" /\ hist[k].m = 1
          \/ hist[k].op = "clone" /\ hist[k].m = 1 /\ hist[k].dst = 2
          \/ /\ hist[k].op \in (AppendOps \ {"appendMessage"}) \cup TakeOps
             /\ hist[k].m = 2

\* C6: values appended to an empty message m come back from takeInt32 in the
\* order they were appended (the k-th take that finds four bytes returns the
\* k-th value), and m.len() is 4 times the number of values not yet taken,
\* whatever is done to clones of m in between.
C6_FifoUnderCloneStress ==
    CloneStress =>
        LET A == CallsOn("appendInt32")
            T == SelectSeq(CallsOn("takeInt32"), LAMBDA r : r.pre >= 4)
        IN /\ \A k \in 1..Len(A) : A[k].ret = Void
           /\ \A k \in 1..Len(T) :
                 k <= Len(A) /\ T[k].ret = Value("appendInt32", A[k].args)
           /\ len(msgs[1]) = 4 * (Len(A) - Len(T))

\* MaxM values went in and came out in order, with clone activity before
\* every take, and m is empty again
C6_Witness ==
    /\ CloneStress
    /\ Len(CallsOn("appendInt32")) = MaxM
    /\ Len(CallsOn("takeInt32")) = MaxM
    /\ Last(hist).op = "takeInt32"
    /\ Last(hist).ret = IntRet32(0, 71 * (MaxM - 1))
    /\ Len(CallsOn("clone")) = 2 * MaxM
    /\ len(msgs[1]) = 0

\* the end a slice call resolves to on a message of length L: L when
\* omitted, L + end when negative
ResolvedEnd(L, args) ==
    IF Len(args) < 2 THEN L
    ELSE IF args[2] < 0 THEN L + args[2] ELSE args[2]

\* call r passed arguments in the documented range: slice bounds with
\* 0 <= begin <= end <= len(), byte counts that are not negative
InBounds(r) ==
    CASE r.op = "slice" ->
            LET e == ResolvedEnd(r.pre, r.args)
            IN 0 <= r.args[1] /\ r.args[1] <= e /\ e <= r.pre
      [] r.op \in {"takeMessage", "skip"} -> r.args[1] >= 0
      [] OTHER -> TRUE

\* every call made so far did
AllInBounds == \A k \in 1..Len(hist) : InBounds(hist[k])

\* the latest step is a call of slice
Sliced == Len(hist') = Len(hist) + 1 /\ Last(hist').op = "slice"

\* ... with 0 <= begin <= end <= len()
ValidSlice == Sliced /\ InBounds(Last(hist'))

\* C7: for 0 <= begin <= end <= len(), slice(begin, end) returns a message
\* whose visible bytes are bytes begin..end-1 of the parent (end = len() when
\* omitted, len() + end when negative), and the parent's len() and visible
\* bytes stay as they were.  (Stated for programs that never passed an
\* argument out of range.)
C7_SliceContent ==
    [][(ValidSlice /\ AllInBounds) =>
          LET r == Last(hist')
              b == r.args[1]
              e == ResolvedEnd(r.pre, r.args)
              parent == VisibleBytes(heap, msgs[r.m])
              child == VisibleBytes(heap', msgs'[r.dst])
          IN /\ r.ret = MsgRet(r.dst)
             /\ Len(child) = e - b
             /\ \A k \in 1..(e - b) :
                   k <= Len(child) /\ b + k <= Len(parent)
                       /\ child[k] = parent[b + k]
             /\ r.m # r.dst =>
                   /\ len(msgs'[r.m]) = len(msgs[r.m])
                   /\ VisibleBytes(heap', msgs'[r.m]) = parent]_vars

\* C8: for 0 <= begin <= end <= len(), the message slice(begin, end) returns
\* reports len() = end - begin.
C8_SliceLength ==
    [][ValidSlice =>
          LET r == Last(hist')
          IN len(msgs'[r.dst]) = ResolvedEnd(r.pre, r.args) - r.args[1]]_vars

\* C9: slice(begin, end) fails and returns no message when begin < 0, or the
\* resolved end is greater than len(), or begin is greater than the resolved
\* end.
C9_SliceBoundsEnforced ==
    [][(Sliced /\ ~ValidSlice) =>
          /\ Last(hist').ret = Err
          /\ msgs' = msgs]_vars

\* C10: byteAt(i) fails for every i outside [0, k) and returns the i-th
\* visible byte for every i inside, k being the number of bytes in the
\* message's window.  (Stated for programs that never passed an argument out
\* of range to slice, takeMessage or skip.)
C10_ByteAtBoundsChecked ==
    (hist # <<>> /\ Last(hist).op = "byteAt" /\ AllInBounds) =>
        LET window == VisibleBytes(heap, msgs[Last(hist).m])
            n == Last(hist).args[1]
        IN Last(hist).ret = IF 0 <= n /\ n < Len(window) THEN IntRet(window[n + 1])
                            ELSE Err

\* the first k elements of w, and w without them
Take(w, k) == SubSeq(w, 1, Min(k, Len(w)))
Drop(w, k) == SubSeq(w, Min(k, Len(w)) + 1, Len(w))

\* the latest step is a call of `op`
Stepped(op) == Len(hist') = Len(hist) + 1 /\ Last(hist').op = op

\* C11: for 0 <= n <= len(), takeMessage(n) returns a message holding the
\* first n visible bytes and leaves the receiver the remaining len() - n
\* bytes; nothing is copied and the returned message is a view that does
\* not own its buffer.  (Stated for programs that never passed an argument
\* out of range.)
C11_TakeMessageSplits ==
    [][(/\ Stepped("takeMessage")
        /\ AllInBounds
        /\ Last(hist').args[1] >= 0
        /\ Last(hist').args[1] <= Last(hist').pre
        /\ Last(hist').dst # Last(hist').m) =>
          LET r == Last(hist')
              n == r.args[1]
              before == VisibleBytes(heap, msgs[r.m])
              taken == VisibleBytes(heap', msgs'[r.dst])
              rest == VisibleBytes(heap', msgs'[r.m])
          IN /\ r.ret = MsgRet(r.dst)
             /\ Len(taken) = n /\ len(msgs'[r.dst]) = n
             /\ taken = Take(before, n)
             /\ rest = Drop(before, n)
             /\ len(msgs'[r.m]) = r.pre - n
             /\ taken \o rest = before
             /\ msgs'[r.dst].bytes.arena = msgs[r.m].bytes.arena
             /\ heap'[msgs[r.m].bytes.arena] = heap[msgs[r.m].bytes.arena]
             /\ msgs'[r.dst].bytes.length <= n]_vars

\* what byteAt(k) returns for k = 0 .. len() - 1
Indexed(h, m) == [k \in 1..len(m) |-> byteAt(h, m, k - 1)]

\* C12: for n >= 0, skip(n) never fails and removes min(n, len()) bytes
\* from the front: len() drops by that much (to 0 when n > len()) and what
\* remains is the former suffix.
C12_SkipClamps ==
    [][(Stepped("skip") /\ Last(hist').args[1] >= 0) =>
          LET r == Last(hist')
              k == Min(r.args[1], r.pre)
          IN /\ r.ret = Void
             /\ len(msgs'[r.m]) = r.pre - k
             /\ r.args[1] > r.pre => len(msgs'[r.m]) = 0
             /\ \A x \in 1..(r.pre - k) :
                   Indexed(heap', msgs'[r.m])[x] = Indexed(heap, msgs[r.m])[x + k]
             /\ r.pre >= 0 =>
                   VisibleBytes(heap', msgs'[r.m])
                       = Drop(VisibleBytes(heap, msgs[r.m]), k)]_vars

\* skip(n) with n greater than len() has left an empty message
C12_Witness ==
    /\ hist # <<>>
    /\ Last(hist).op = "skip"
    /\ Last(hist).pre > 0 /\ Last(hist).args[1] > Last(hist).pre
    /\ Last(hist).ret = Void
    /\ len(msgs[Last(hist).m]) = 0

\* C13: m.appendMessage(other) extends m by other.len() bytes equal to
\* other's visible bytes, keeps m's earlier bytes, and leaves other's len()
\* and visible bytes unchanged.  (Stated for programs that never passed an
\* argument out of range.)
C13_AppendMessageCopies ==
    [][(Stepped("appendMessage") /\ AllInBounds) =>
          LET r == Last(hist')
              j == r.args[1]
              mine == VisibleBytes(heap, msgs[r.m])
              other == VisibleBytes(heap, msgs[j])
          IN /\ r.ret = Void
             /\ len(msgs'[r.m]) = r.pre + len(msgs[j])
             /\ Len(other) = len(msgs[j])
             /\ VisibleBytes(heap', msgs'[r.m]) = mine \o other
             /\ j # r.m =>
                   /\ len(msgs'[j]) = len(msgs[j])
                   /\ VisibleBytes(heap', msgs'[j]) = other]_vars

\* C14: an append that fails leaves the message's len() and visible bytes
\* exactly as they were before the call.
C14_NoPartialAppend ==
    [][\A i \in Slots :
          (Appended(i) /\ Last(hist').ret = Err) =>
              /\ len(msgs'[i]) = len(msgs[i])
              /\ VisibleBytes(heap', msgs'[i]) = VisibleBytes(heap, msgs[i])]_vars

\* the visible bytes and len() of every message variable are what they were
MessagesUntouched ==
    \A i \in Slots :
        /\ msgs'[i].live = msgs[i].live
        /\ msgs[i].live =>
              /\ len(msgs'[i]) = len(msgs[i])
              /\ VisibleBytes(heap', msgs'[i]) = VisibleBytes(heap, msgs[i])

\* C15: toBytes() returns an array of length len() whose elements are the
\* message's visible bytes and leaves the messages alone; a write to the
\* returned array changes no message; and no other call (append, take, skip,
\* on this message or on one sharing its buffer) changes the returned array.
\* (Stated for programs that never passed an argument out of range.)
C15_ToBytesNeverAliases ==
    [][
        /\ (Stepped("toBytes") /\ AllInBounds) =>
              /\ Last(hist').ret = <<"bytes", Last(hist').pre>>
              /\ array'.length = Last(hist').pre
              /\ ArrayBytes(heap', array') = VisibleBytes(heap, msgs[Last(hist').m])
              /\ MessagesUntouched
        /\ Stepped("arrayWrite") => MessagesUntouched
        /\ (Len(hist') = Len(hist) + 1
              /\ Last(hist').op \notin {"toBytes", "arrayWrite"}) =>
              /\ array' = array
              /\ ArrayBytes(heap', array') = ArrayBytes(heap, array)]_vars

\* a lowercase hex digit: '0'..'9' or 'a'..'f'
IsLowerHexDigit(c) == (c >= 48 /\ c <= 57) \/ (c >= 97 /\ c <= 102)

\* a hex digit of either case
IsHexDigit(c) == IsLowerHexDigit(c) \/ (c >= 65 /\ c <= 70)

\* the value of a lowercase hex digit
DigitValue(c) == IF c <= 57 THEN c - 48 ELSE c - 87

\* str is an even-length string of lowercase hex digits
IsLowerHex(str) ==
    Len(str) % 2 = 0 /\ \A k \in 1..Len(str) : IsLowerHexDigit(str[k])

\* C16: toHexString of a message showing the bytes b yields 2*|b| lowercase
\* hex characters, two per byte, the first being the byte's high digit;
\* messageFromHexString of that string yields a message of length |b| showing
\* b; and messageFromHexString of an even-length lowercase hex string s
\* yields a message whose toHexString is s.
C16_HexRoundTrip ==
    [][
        /\ Stepped("toHexString") =>
              LET b == VisibleBytes(heap, msgs[Last(hist').m])
              IN /\ Last(hist').ret = StrRet(2 * Len(b))
                 /\ Len(text') = 2 * Len(b)
                 /\ \A k \in 1..Len(b) :
                        /\ IsLowerHexDigit(text'[2 * k - 1])
                        /\ IsLowerHexDigit(text'[2 * k])
                        /\ 16 * DigitValue(text'[2 * k - 1])
                               + DigitValue(text'[2 * k]) = b[k]
        /\ (Stepped("messageFromHexString") /\ hist # <<>>
              /\ Last(hist).op = "toHexString" /\ Last(hist').args = text
              /\ Last(hist').dst # Last(hist).m) =>
              LET b == VisibleBytes(heap, msgs[Last(hist).m])
                  j == Last(hist').dst
              IN /\ Last(hist').ret = MsgRet(j)
                 /\ msgs'[j].live
                 /\ len(msgs'[j]) = Len(b)
                 /\ VisibleBytes(heap', msgs'[j]) = b
                 /\ \A k \in 1..Len(b) : byteAt(heap', msgs'[j], k - 1) = IntRet(b[k])
        /\ (Stepped("messageFromHexString") /\ IsLowerHex(Last(hist').args)) =>
              /\ Last(hist').ret = MsgRet(Last(hist').dst)
              /\ 2 * len(msgs'[Last(hist').dst]) = Len(Last(hist').args)
        /\ (Stepped("toHexString") /\ hist # <<>>
              /\ Last(hist).op = "messageFromHexString"
              /\ Last(hist).ret = MsgRet(Last(hist').m)
              /\ IsLowerHex(Last(hist).args)) =>
              text' = Last(hist).args
      ]_vars

\* a message with a byte below 16 and bytes above was turned into its hex string and
\* that string into a second message showing the same bytes
C16_Witness ==
    /\ Len(hist) >= 3
    /\ Last(hist).op = "messageFromHexString"
    /\ Ago(1).op = "toHexString"
    /\ Last(hist).args = text
    /\ text = <<48, 48, 49, 49, 50, 50>>
    /\ Last(hist).ret = MsgRet(2)
    /\ VisibleBytes(heap, msgs[2]) = <<0, 17, 34>>
    /\ VisibleBytes(heap, msgs[1]) = <<0, 17, 34>>

\* str is not an even-length string of hex digits
Malformed(str) ==
    Len(str) % 2 # 0 \/ \E k \in 1..Len(str) : ~IsHexDigit(str[k])

\* C17: messageFromHexString(s) fails and creates no message for every s
\* that is not an even-length string of hex digits.
C17_MalformedHexRejected ==
    [][(Stepped("messageFromHexString") /\ Malformed(Last(hist').args)) =>
           /\ Last(hist').ret = Err
           /\ msgs' = msgs]_vars

\* the string passed by a messageFromString call with encoding 'ascii'
AsciiCall(r) == r.op = "messageFromString" /\ r.args[1] \in {"ascii", "ASCII"}

\* every character's code fits in one byte
Fits(str) == \A k \in 1..Len(str) : str[k] <= 255

\* C18: messageFromString(str, 'ascii') fails when a character of str has a
\* code above 255; otherwise the message has len() = |str|, byte i is the
\* code of character i, and toString('ascii') returns str.
C18_AsciiEncodingError ==
    [][
        /\ (Len(hist') = Len(hist) + 1 /\ AsciiCall(Last(hist'))) =>
              LET str == Last(hist').args[2]
                  j == Last(hist').dst
              IN IF ~Fits(str) THEN Last(hist').ret = Err /\ msgs' = msgs
                 ELSE /\ Last(hist').ret = MsgRet(j)
                      /\ len(msgs'[j]) = Len(str)
                      /\ \A k \in 1..Len(str) :
                             byteAt(heap', msgs'[j], k - 1) = IntRet(str[k])
        /\ (Stepped("toString") /\ Last(hist').args[1] \in {"ascii", "ASCII"}
              /\ hist # <<>> /\ AsciiCall(Last(hist))
              /\ Last(hist).ret = MsgRet(Last(hist').m)
              /\ Fits(Last(hist).args[2])) =>
              /\ Last(hist').ret = StrRet(Len(Last(hist).args[2]))
              /\ text' = Last(hist).args[2]
      ]_vars

\* the call that made the message variable j holds
Maker(j) ==
    CHOOSE k \in 1..Len(hist) :
        /\ hist[k].dst = j /\ hist[k].ret = MsgRet(j)
        /\ \A x \in (k + 1)..Len(hist) : ~(hist[x].dst = j /\ hist[x].ret = MsgRet(j))

\* the appends to variable j's message that succeeded, after call e
AppendsTo(j, e) ==
    {k \in (e + 1)..Len(hist) :
        hist[k].m = j /\ hist[k].op \in AppendOps /\ hist[k].ret = Void}

\* the number of bytes they appended
AppendedBytes(j, e) ==
    Cardinality(UNION {{<<k, u>> : u \in 1..(hist[k].post - hist[k].pre)} :
                          k \in AppendsTo(j, e)})

\* variable j holds a message that emptyMessage() returned
FromEmptyMessage(j) == msgs[j].live /\ hist[Maker(j)].op = "emptyMessage"

\* C19: emptyMessage() has len() = 0, and as long as at most 256 bytes were
\* appended to it in total, no append to it has reallocated, whatever takes
\* and skips were made between the appends.  (Stated for programs that never
\* passed an argument out of range.)
C19_EmptyMessageCapacity ==
    AllInBounds =>
        \A j \in Slots :
            FromEmptyMessage(j) =>
                /\ Maker(j) = Len(hist) => len(msgs[j]) = 0
                /\ AppendedBytes(j, Maker(j)) <= initialCapacity =>
                       msgs[j].reallocationCounter = 0

\* 2 to the power k
RECURSIVE Pow2(_)
Pow2(k) == IF k = 0 THEN 1 ELSE 2 * Pow2(k - 1)

\* ceil(log2(n)) for n >= 1: the least k with 2^k >= n
CeilLog2(n) == CHOOSE k \in 0..30 : Pow2(k) >= n /\ \A x \in 0..(k - 1) : Pow2(x) < n

\* the program made a fresh emptyMessage() and then only appended single
\* bytes to it, one after another
GrowthRun(h) ==
    /\ h # <<>>
    /\ h[1].op = "emptyMessage"
    /\ \A k \in 2..Len(h) : h[k].op = "appendByte" /\ h[k].m = h[1].dst

\* C20: after N single bytes were appended one after another to a fresh
\* emptyMessage(), the message has reallocated at most ceil(log2(N)) times;
\* an append reallocates at most once, and then the new buffer is twice as
\* long as the message has become.
C20_GrowthAmortized ==
    [][(Stepped("appendByte") /\ GrowthRun(hist')) =>
           LET N == Len(hist') - 1
               j == hist[1].dst
           IN /\ Last(hist').ret = Void
              /\ len(msgs'[j]) = N
              /\ msgs'[j].reallocationCounter <= CeilLog2(N)
              /\ \/ /\ msgs'[j].reallocationCounter = msgs[j].reallocationCounter
                    /\ msgs'[j].bytes = msgs[j].bytes
                 \/ /\ msgs'[j].reallocationCounter = msgs[j].reallocationCounter + 1
                    /\ msgs'[j].bytes.length = 2 * N]_vars

\* 515 single bytes were appended: the buffers of 256 and of 514 bytes were
\* outgrown, the message has reallocated twice
C20_Witness ==
    /\ GrowthRun(hist)
    /\ Len(hist) - 1 = 2 * (initialCapacity + 1) + 1
    /\ msgs[1].reallocationCounter = 2
    /\ msgs[1].bytes.length = 2 * (2 * (initialCapacity + 1) + 1)

\* ---------------------------------------------- symmetric-key encryption

\* the call that last gave key variable k its key
KeyMaker(k) ==
    CHOOSE x \in 1..Len(hist) :
        /\ hist[x].ret = KeyRet(k)
        /\ \A y \in (x + 1)..Len(hist) : hist[y].ret # KeyRet(k)

\* the latest step is d = k.decrypt(e) and the call before it e = k.encrypt(m)
\* for the same key variable k, m staying in its own variable
DecryptedBack ==
    /\ Stepped("decrypt")
    /\ Len(hist) >= 1
    /\ Last(hist).op = "encrypt"
    /\ Last(hist).ret = MsgRet(Last(hist').m)
    /\ Last(hist).args = Last(hist').args
    /\ Last(hist).m # Last(hist).dst

\* C21: for every key k from generateSymmetricKey() and every message m
\* (also one of length 0), k.decrypt(k.encrypt(m)) succeeds and returns a
\* message whose bytes are m's bytes.
C21_RoundTrip ==
    [][(/\ DecryptedBack
        /\ hist[KeyMaker(Last(hist).args[1])].op = "generateSymmetricKey")
       => /\ Last(hist').ret = MsgRet(Last(hist').dst)
          /\ VisibleBytes(heap', msgs'[Last(hist').dst])
                 = VisibleBytes(heap, msgs[Last(hist).m])
      ]_vars

\* the key the latest call was made on
KeyUsed == keys[Last(hist').args[1]].keyBytes

\* C22: k.encrypt(m) returns a message of length len(m) + 28: the 12 bytes
\* of the nonce that was drawn, then len(m) bytes of ciphertext, then the 16
\* bytes of the tag.  k.decrypt(c), for c of length L >= 28 (L being the size
\* of c's window), takes bytes [0, 12) as the nonce, bytes [12, L - 16) as
\* the ciphertext and bytes [L - 16, L) as the tag: it returns the
\* decryption of that ciphertext when that tag verifies and fails otherwise.
\* (k is a key of 32 bytes, the only length the engine accepts.)
C22_WireLayout ==
    [][/\ (/\ Stepped("encrypt")
           /\ Len(KeyUsed) = KeyLength
           /\ Last(hist').pre >= 0)
          => LET L == Last(hist').pre
                 c == VisibleBytes(heap', msgs'[Last(hist').dst])
                 ct == GcmEncrypt(KeyUsed, drawn',
                                  BufferOf(heap, msgs[Last(hist').m], junk))
             IN /\ Last(hist').ret = MsgRet(Last(hist').dst)
                /\ len(msgs'[Last(hist').dst]) = L + NonceLength + TagLength
                /\ Len(c) = L + NonceLength + TagLength
                /\ Len(drawn') = NonceLength
                /\ SubSeq(c, 1, NonceLength) = drawn'
                /\ SubSeq(c, NonceLength + 1, NonceLength + L) = ct
                /\ SubSeq(c, NonceLength + L + 1, Len(c)) = GcmTag(KeyUsed, drawn', ct)
       /\ (/\ Stepped("decrypt")
           /\ Len(KeyUsed) = KeyLength
           /\ Last(hist').pre >= NonceLength + TagLength
           /\ Len(VisibleBytes(heap, msgs[Last(hist').m])) = Last(hist').pre)
          => LET L == Last(hist').pre
                 c == VisibleBytes(heap, msgs[Last(hist').m])
                 nonce == SubSeq(c, 1, NonceLength)
                 ct == SubSeq(c, NonceLength + 1, L - TagLength)
                 tag == SubSeq(c, L - TagLength + 1, L)
             IN IF GcmVerify(KeyUsed, nonce, ct, tag)
                THEN /\ Last(hist').ret = MsgRet(Last(hist').dst)
                     /\ VisibleBytes(heap', msgs'[Last(hist').dst])
                            = GcmDecrypt(KeyUsed, nonce, ct)
                ELSE Last(hist').ret = NotAuthentic
      ]_vars

\* a plaintext of three bytes was encrypted to 31 bytes, which were decrypted
C22_Witness ==
    /\ Len(hist) >= 2
    /\ Last(hist).op = "decrypt" /\ Last(hist).ret = MsgRet(Last(hist).dst)
    /\ Last(hist).pre = 3 + NonceLength + TagLength
    /\ Ago(1).op = "encrypt" /\ Ago(1).pre = 3
    /\ Ago(1).ret = MsgRet(Last(hist).m)
    /\ len(msgs[Last(hist).dst]) = 3

\* c is nonce, ciphertext and tag of some plaintext under keyBytes
ValidCiphertext(keyBytes, c) ==
    /\ Len(c) >= NonceLength + TagLength
    /\ LET nonce == SubSeq(c, 1, NonceLength)
           ct == SubSeq(c, NonceLength + 1, Len(c) - TagLength)
       IN SubSeq(c, Len(c) - TagLength + 1, Len(c)) = GcmTag(keyBytes, nonce, ct)

\* c differs in exactly one byte, by one of TamperDeltas, from a valid
\* ciphertext under keyBytes
OneByteOff(keyBytes, c) ==
    \E p \in 1..Len(c), d \in TamperDeltas :
        ValidCiphertext(keyBytes, [c EXCEPT ![p] = (@ - d) % 256])

\* C23: if c' differs in exactly one byte (of the nonce, the ciphertext or
\* the tag) from a valid output c of k.encrypt(m), then k.decrypt(c') fails
\* with an error and returns no plaintext: the variable it would have been
\* assigned to holds what it held.
C23_TamperRejected ==
    [][(/\ Stepped("decrypt")
        /\ Len(KeyUsed) = KeyLength
        /\ Len(VisibleBytes(heap, msgs[Last(hist').m])) = Last(hist').pre
        /\ OneByteOff(KeyUsed, VisibleBytes(heap, msgs[Last(hist').m])))
       => /\ Failed(Last(hist').ret)
          /\ Last(hist').dst # Last(hist').m
                => msgs'[Last(hist').dst] = msgs[Last(hist').dst]
      ]_vars

\* decrypt rejected the two-byte fixture with a byte of its nonce changed,
\* with a byte of its ciphertext changed, or with a byte of its tag changed
TamperedAt(p) ==
    /\ Len(hist) >= 2
    /\ Last(hist).op = "decrypt" /\ Last(hist).ret = NotAuthentic
    /\ Ago(1).op = "messageFromBytes" /\ Ago(1).dst = Last(hist).m
    /\ LET c == Sealed(FixtureKey, FixtureNonce, <<108, 97>>)
       IN /\ Ago(1).args # c
          /\ Len(Ago(1).args) = Len(c)
          /\ \A q \in (1..Len(c)) \ {p} : Ago(1).args[q] = c[q]
          /\ keys[Last(hist).args[1]].keyBytes = FixtureKey

C23_Witness == TamperedAt(NonceLength + 1)

\* the latest step is k1 = symmetricKeyFromMessage(k.asMessage())
Reimported ==
    /\ Stepped("symmetricKeyFromMessage")
    /\ Last(hist').m = 0
    /\ exported.live

C25_SingleErrorKind ==
    [][(/\ Stepped("decrypt")
        /\ Len(KeyUsed) = KeyLength
        /\ Last(hist').pre >= 0
        /\ Len(VisibleBytes(heap, msgs[Last(hist').m])) = Last(hist').pre
        /\ ~ValidCiphertext(KeyUsed, VisibleBytes(heap, msgs[Last(hist').m])))
       => Last(hist').ret = NotAuthentic
      ]_vars

\* ------------------------------- claims about the typed-array revision

TaAppendOps ==
    {"appendByte", "appendInt16", "appendUint16", "appendInt32", "appendUint32",
     "appendMessage"}

\* this step is an append to the message in variable i
TaAppended(i) ==
    Len(hist') = Len(hist) + 1 /\ Last(hist').op \in TaAppendOps /\ Last(hist').m = i

\* the bytes this step's append adds
TaAdded ==
    LET c == Last(hist')
    IN CASE c.op = "appendByte" -> 1
         [] c.op \in {"appendInt16", "appendUint16"} -> 2
         [] c.op \in {"appendInt32", "appendUint32"} -> 4
         [] OTHER -> taLen(msgs[c.args[1]])

\* this step bound the message in variable i to another arena
Reallocated(i) == msgs'[i].bytes.arena # msgs[i].bytes.arena

\* the arena of the message in variable i has fewer than k bytes after the
\* window's end
NoRoom(i, k) == byteLength(heap, msgs[i]) < msgs[i].bytes.off + taLen(msgs[i]) + k

\* C26: an append of k bytes to a message of length L reallocates if and
\* only if the message is non-owning or its arena's capacity is less than
\* window offset + L + k; when it reallocates, the new arena has capacity
\* exactly 2 * (L + k), starts with the L visible bytes, and the message is
\* bound to it at offset 0 with length L + k.
C26_ReallocationRule ==
    [][\A i \in Slots :
          TaAppended(i) =>
              LET k == TaAdded
                  L == taLen(msgs[i])
              IN /\ Reallocated(i) <=> (~msgs[i].owner \/ NoRoom(i, k))
                 /\ Reallocated(i) =>
                       /\ byteLength(heap', msgs'[i]) = 2 * (L + k)
                       /\ msgs'[i].bytes.off = 0
                       /\ msgs'[i].bytes.length = L + k
                       /\ \A p \in 1..L :
                              heap'[msgs'[i].bytes.arena][p] = Window(heap, msgs[i])[p]]_vars

\* an append to a one-byte slice has just moved it to an arena of four bytes
C26_Witness ==
    /\ Len(hist) >= 2
    /\ Last(hist).op \in TaAppendOps
    /\ Ago(1).op = "slice" /\ Ago(1).dst = Last(hist).m
    /\ Last(hist).pre = 1 /\ Last(hist).post = 2
    /\ byteLength(heap, msgs[Last(hist).m]) = 4
    /\ msgs[Last(hist).m].bytes.off = 0

\* C27: when a message is owning and its arena has at least k bytes after
\* the window's end, an append of k bytes keeps the arena and the window
\* offset, copies nothing, and changes only the message's length and the k
\* arena bytes right after the old window end: every other byte of the
\* arena, every other arena and every other message is as before.
C27_InPlaceFrame ==
    [][\A i \in Slots :
          (TaAppended(i) /\ msgs[i].owner /\ ~NoRoom(i, TaAdded)) =>
              LET k == TaAdded
                  L == taLen(msgs[i])
                  a == msgs[i].bytes.arena
                  end == msgs[i].bytes.off + L
              IN /\ msgs' = [msgs EXCEPT ![i].bytes.length = L + k]
                 /\ \A c \in Arenas : c # a => heap'[c] = heap[c]
                 /\ Len(heap'[a]) = Len(heap[a])
                 /\ \A p \in 1..Len(heap[a]) :
                        ~(p > end /\ p <= end + k) => heap'[a][p] = heap[a][p]]_vars

\* an owning message whose window starts inside its arena has just grown
\* in place
C27_Witness ==
    /\ Len(hist) >= 2
    /\ Last(hist).op \in TaAppendOps
    /\ Last(hist).pre > 0 /\ Last(hist).post > Last(hist).pre
    /\ msgs[Last(hist).m].bytes.off > 0
    /\ byteLength(heap, msgs[Last(hist).m]) = initialCapacity

\* the call that made the message now in variable i (0: there is none)
Made(i) ==
    LET S == {q \in 1..Len(hist) : hist[q].dst = i /\ hist[q].ret[1] = "msg"}
    IN IF S = {} THEN 0 ELSE CHOOSE q \in S : \A r \in S : r <= q

\* the calls made since then on the message in variable i
Since(i) == {q \in (Made(i) + 1)..Len(hist) : hist[q].m = i}

\* the message in variable i came from slice or takeMessage and has only
\* been appended to since
SlicedThenAppended(i) ==
    /\ Made(i) > 0
    /\ hist[Made(i)].op \in {"slice", "takeMessage"}
    /\ \A q \in Since(i) : hist[q].op \in TaAppendOps

\* the capacity its first append gave it
Doubled(i) ==
    LET first == CHOOSE q \in Since(i) : \A r \in Since(i) : q <= r
    IN 2 * hist[first].post

\* C28: after any append the message is owning, whether it was before or
\* not; hence a message that came from slice or takeMessage reallocates on
\* its first append and then appends in place, without reallocating, until
\* the doubled capacity that append gave it is used up (and reallocates on
\* the append that does not fit in it).
C28_OwningAfterGrow ==
    [][\A i \in Slots :
          TaAppended(i) =>
              /\ msgs'[i].owner
              /\ SlicedThenAppended(i) =>
                    IF Since(i) = {} THEN Reallocated(i)
                    ELSE LET L == taLen(msgs[i])
                             k == TaAdded
                         IN /\ L + k <= Doubled(i) => ~Reallocated(i)
                            /\ (L <= Doubled(i) /\ L + k > Doubled(i)) => Reallocated(i)]_vars

\* a one-byte slice was appended to four times: the first append gave it
\* an arena of four bytes, the fourth found that arena full
C28_Witness ==
    /\ Len(hist) >= 5
    /\ Ago(4).op = "slice" /\ Ago(4).dst = Last(hist).m
    /\ \A q \in 0..3 : Ago(q).op \in TaAppendOps /\ Ago(q).m = Last(hist).m
    /\ Ago(3).pre = 1 /\ Ago(3).post = 2
    /\ Last(hist).pre = 4
    /\ msgs[Last(hist).m].owner
    /\ byteLength(heap, msgs[Last(hist).m]) = 2 * Last(hist).post

\* C29: no two distinct messages that are both owning reference the same
\* arena.
C29_OwnershipExclusivity ==
    \A i, j \in Slots :
        (i # j /\ msgs[i].live /\ msgs[j].live /\ msgs[i].owner /\ msgs[j].owner)
            => msgs[i].bytes.arena # msgs[j].bytes.arena

\* two owning messages, one of them cut from the other and appended to
\* since
C29_Witness ==
    \E i, j \in Slots :
        /\ i # j /\ msgs[i].live /\ msgs[j].live
        /\ msgs[i].owner /\ msgs[j].owner
        /\ Made(j) > 0
        /\ hist[Made(j)].op \in {"slice", "takeMessage"} /\ hist[Made(j)].m = i
        /\ Since(j) # {}

\* this step is a slice or takeMessage of the message in variable i, and
\* the message it returned went to another variable
TaSliced(i) ==
    /\ Len(hist') = Len(hist) + 1
    /\ Last(hist').op \in {"slice", "takeMessage"}
    /\ Last(hist').m = i /\ Last(hist').dst # i
    /\ Last(hist').ret[1] = "msg"

\* a message cut from the one in variable i still references its arena,
\* and the one in variable i has not been appended to since the cut
ParentOfSlice(i) ==
    \E q \in 1..Len(hist) :
        LET j == hist[q].dst
        IN /\ hist[q].op \in {"slice", "takeMessage"}
           /\ hist[q].m = i /\ j # i /\ q > Made(i) /\ Made(j) = q
           /\ msgs[j].live /\ msgs[j].bytes.arena = msgs[i].bytes.arena
           /\ \A r \in (q + 1)..Len(hist) :
                  hist[r].m = i => hist[r].op \notin TaAppendOps

\* C30 as stated: after slice or takeMessage the parent's next append
\* reallocates to a private arena instead of growing in place inside the
\* arena that the slice still references.
C30_SliceDowngradesParent ==
    [][\A i \in Slots :
          (TaAppended(i) /\ ParentOfSlice(i)) => Reallocated(i)]_vars

\* C30, amended: slice and takeMessage return a non-owning message and
\* leave the parent's owner flag as it was; an owning parent's next append
\* still grows in place, inside the arena the slice references, when there
\* is room after the parent's window end; and no append changes a byte of
\* another message's window.
C30_ParentKeepsOwnership ==
    [][\A i \in Slots :
          /\ TaSliced(i) =>
                /\ msgs'[i].owner = msgs[i].owner
                /\ ~msgs'[Last(hist').dst].owner
          /\ (TaAppended(i) /\ ParentOfSlice(i) /\ msgs[i].owner
                /\ ~NoRoom(i, TaAdded)) => ~Reallocated(i)
          /\ TaAppended(i) =>
                \A j \in Slots :
                    (j # i /\ msgs[j].live) =>
                        /\ msgs'[j] = msgs[j]
                        /\ Window(heap', msgs'[j]) = Window(heap, msgs[j])]_vars

\* an owning message was sliced whole and then appended to, in place: the
\* slice still references the arena and ends where the new bytes begin
C30_Witness ==
    /\ Len(hist) >= 2
    /\ Last(hist).op \in TaAppendOps
    /\ Ago(1).op = "slice" /\ Ago(1).m = Last(hist).m /\ Ago(1).dst # Last(hist).m
    /\ msgs[Ago(1).dst].live /\ ~msgs[Ago(1).dst].owner
    /\ msgs[Last(hist).m].owner
    /\ msgs[Ago(1).dst].bytes.arena = msgs[Last(hist).m].bytes.arena
    /\ taLen(msgs[Ago(1).dst]) = Last(hist).pre
    /\ Last(hist).pre > 0 /\ Last(hist).post > Last(hist).pre

\* C31 as stated: an arena's capacity never changes once allocated, and an
\* append that rebinds a message to a new arena gives it an arena of
\* strictly larger capacity than the one it referenced before.
C31_ArenasOnlyGrow ==
    [][/\ \A a \in Referenced(msgs) \cap Referenced(msgs') :
              Len(heap'[a]) = Len(heap[a])
       /\ \A i \in Slots :
              (TaAppended(i) /\ Reallocated(i)) =>
                  byteLength(heap', msgs'[i]) > byteLength(heap, msgs[i])]_vars

\* C31, amended: an arena's capacity never changes once allocated; an
\* append of k bytes that rebinds a message of length L to a new arena
\* gives it an arena of at least 2 * L and at least L + k bytes, and, for
\* an owning message, of more bytes than the old arena had from the
\* window's start on.  (The new arena can be smaller than the whole of the
\* old one.)
C31_ArenasFitTheWindow ==
    [][/\ \A a \in Referenced(msgs) \cap Referenced(msgs') :
              Len(heap'[a]) = Len(heap[a])
       /\ \A i \in Slots :
              (TaAppended(i) /\ Reallocated(i)) =>
                  LET L == taLen(msgs[i])
                      new == byteLength(heap', msgs'[i])
                  IN /\ new >= 2 * L
                     /\ new >= L + TaAdded
                     /\ msgs[i].owner =>
                            new > byteLength(heap, msgs[i]) - msgs[i].bytes.off]_vars

\* an append has just moved a message cut from an arena of initialCapacity
\* bytes, which another message still references, to a smaller arena
C31_Witness ==
    /\ Len(hist) >= 2
    /\ Last(hist).op \in TaAppendOps
    /\ Last(hist).post > Last(hist).pre
    /\ Made(Last(hist).m) > 0
    /\ hist[Made(Last(hist).m)].op \in {"slice", "takeMessage"}
    /\ Since(Last(hist).m) = {Len(hist)}
    /\ LET p == hist[Made(Last(hist).m)].m
       IN /\ msgs[p].live
          /\ byteLength(heap, msgs[p]) = initialCapacity
          /\ byteLength(heap, msgs[Last(hist).m]) < initialCapacity

\* ------------------------------ claims about messages that share arenas

\* the bytes this step's append adds to the message it is called on
Added ==
    LET c == Last(hist')
    IN CASE c.op = "appendByte" -> 1
         [] c.op \in {"appendInt16", "appendUint16"} -> 2
         [] c.op \in {"appendInt32", "appendUint32"} -> 4
         [] c.op = "appendBytes" -> Len(c.args)
         [] OTHER -> len(msgs[c.args[1]])

\* the message in variable i came from slice, clone or takeMessage and no
\* call has been made on it since
FreshCut(i) ==
    /\ Made(i) > 0
    /\ hist[Made(i)].op \in {"slice", "clone", "takeMessage"}
    /\ Since(i) = {}

\* C32: the first append of k >= 1 bytes to a message produced by slice,
\* clone or takeMessage binds it to a fresh arena, and every byte of the
\* arena it was cut from keeps its value.
C32_CutNeverWritesItsArena ==
    [][\A i \in Slots :
           (Appended(i) /\ FreshCut(i) /\ Added >= 1 /\ Last(hist').ret # Err) =>
               LET a == msgs[i].bytes.arena
               IN /\ msgs'[i].bytes.arena # a
                  /\ a \in InUse(msgs', array') => heap'[a] = heap[a]]_vars

\* the methods of a message
MessageOps ==
    AppendOps \cup
    {"byteAt", "slice", "clone", "toBytes", "skip", "takeMessage", "takeByte",
     "takeInt16", "takeUint16", "takeInt32", "takeUint32"}

\* C33: a call on a message x that returns without error leaves the len()
\* and the visible bytes of every other message y as they were, however x
\* and y are related by slice, clone or takeMessage and whatever arguments
\* those calls were given.
C33_NonInterference ==
    [][\A x \in Slots, y \in Slots :
           (/\ Len(hist') = Len(hist) + 1
            /\ Last(hist').op \in MessageOps
            /\ Last(hist').m = x
            /\ Last(hist').ret # Err
            /\ y # x /\ y # Last(hist').dst
            /\ msgs[y].live)
               => /\ len(msgs'[y]) = len(msgs[y])
                  /\ VisibleBytes(heap', msgs'[y]) = VisibleBytes(heap, msgs[y])]_vars

\* ------------------------------------------ claims about strings

\* this step is toString('utf16') on the message in variable i
DecodedUtf16(i) ==
    /\ Stepped("toString")
    /\ Last(hist').m = i
    /\ TaEncodings[Last(hist').args[1]] \in Utf16Names

\* C34: toString('utf16') of a message of even length returns exactly
\* len()/2 characters, those its visible window encodes, and nothing from
\* arena bytes outside the window; in particular it returns s for
\* messageFromString(s, 'utf16'), whose len() is 2*|s|.
C34_Utf16CoversTheWindow ==
    [][\A i \in Slots :
           (DecodedUtf16(i) /\ taLen(msgs[i]) % 2 = 0) =>
               /\ Last(hist').ret = StrRet(taLen(msgs[i]) \div 2)
               /\ Utf16Bytes(text') = Window(heap, msgs[i])]_vars

\* ------------------------------------------------- claims about keys

\* this step assigned key variable k
KeyAssigned(k) ==
    /\ Len(hist') = Len(hist) + 1
    /\ Last(hist').op \in {"generateSymmetricKey", "symmetricKeyFromMessage"}
    /\ Last(hist').args[1] = k

Constructors ==
    {"emptyMessage", "messageFromBytes", "messageFromHexString",
     "messageFromString", "random"}

\* the calls that leave their receiver as it is
ReadOps ==
    {"byteAt", "toBytes", "toHexString", "toString", "slice", "clone", "encrypt",
     "symmetricKeyFromMessage"}

\* the message in variable i was made by a constructor, and every call on
\* it since was an append, a take, a skip or a read that returned without
\* error
IsQueue(i) ==
    /\ Made(i) > 0
    /\ hist[Made(i)].op \in Constructors
    /\ \A q \in Since(i) :
           /\ hist[q].op \in AppendOps \cup TakeOps \cup ReadOps \cup {"skip", "takeMessage"}
           /\ ~Failed(hist[q].ret)

\* the bytes this step's append was given
Enqueued ==
    LET c == Last(hist')
    IN CASE c.op = "appendByte" -> <<c.args[1] % 256>>
         [] c.op \in {"appendInt16", "appendUint16"} -> BE16(c.args[1])
         [] c.op \in {"appendInt32", "appendUint32"} ->
                BE16(c.args[1]) \o BE16(c.args[2])
         [] c.op = "appendBytes" -> [k \in 1..Len(c.args) |-> c.args[k] % 256]
         [] OTHER ->
                [k \in 1..len(msgs[c.args[1]]) |->
                    ToUint8(byteAt(heap, msgs[c.args[1]], k - 1))]

\* the bytes this step's take or skip removes
Dequeued ==
    LET c == Last(hist')
    IN IF c.op = "skip" THEN Min(c.args[1], c.pre) ELSE Needs(c)

\* C36: a message made by a constructor is a FIFO queue of bytes.  In a
\* program whose arguments are all in range, each successful append adds
\* the bytes it was given behind the visible bytes, each successful take
\* or skip (n >= 0) removes bytes from their front, len() is the number of
\* visible bytes and never negative - hence len() = |B0| + appended -
\* consumed and the visible bytes are the rest of B0 followed by the
\* appended bytes in order, however often the message reallocated.
C36_FifoByteQueue ==
    [][\A i \in Slots :
          /\ (IsQueue(i)' /\ AllInBounds') =>
                 /\ len(msgs'[i]) >= 0
                 /\ len(msgs'[i]) = Len(VisibleBytes(heap', msgs'[i]))
          /\ (/\ IsQueue(i) /\ IsQueue(i)' /\ AllInBounds'
              /\ Len(hist') = Len(hist) + 1 /\ Last(hist').m = i)
                 => LET c == Last(hist')
                        old == VisibleBytes(heap, msgs[i])
                        new == VisibleBytes(heap', msgs'[i])
                    IN /\ c.op \in AppendOps =>
                             /\ new = old \o Enqueued
                             /\ len(msgs'[i]) = len(msgs[i]) + Len(Enqueued)
                       /\ c.op \in TakeOps \cup {"skip", "takeMessage"} =>
                             /\ new = SubSeq(old, Dequeued + 1, Len(old))
                             /\ len(msgs'[i]) = len(msgs[i]) - Dequeued
                       /\ c.op \in ReadOps => new = old]_vars

\* a message made by a constructor has reallocated, has had bytes taken
\* from its front and still shows some
C36_Witness ==
    \E i \in Slots :
        /\ IsQueue(i) /\ AllInBounds
        /\ msgs[i].reallocationCounter >= 1
        /\ \E q \in Since(i) : hist[q].op \in TakeOps /\ hist[q].post > 0
        /\ \E q \in Since(i) : hist[q].op = "appendMessage"
        /\ len(msgs[i]) > 0

\* C37: in every reachable state the window [0, len()) of every message
\* lies within the bytes that back it: len() is not negative and never
\* exceeds the number of bytes of the message's buffer view, so that no
\* message exposes bytes nobody wrote.
C37_WindowsAreBacked ==
    \A i \in Slots :
        msgs[i].live =>
            /\ len(msgs[i]) >= 0
            /\ len(msgs[i]) <= msgs[i].bytes.length

\* C38: a successful k.decrypt(p) on a message p of length L >= 28 leaves p
\* advanced past the nonce and the ciphertext: p.len() = 16 and p shows the
\* last 16 bytes of the input, the tag; the plaintext it returns is another
\* message, in a buffer of its own.
C38_DecryptConsumesItsArgument ==
    [][(/\ Stepped("decrypt")
        /\ Last(hist').ret[1] = "msg"
        /\ Last(hist').pre >= NonceLength + TagLength
        /\ Last(hist').dst # Last(hist').m)
          => LET p == Last(hist').m
                 d == Last(hist').dst
                 input == VisibleBytes(heap, msgs[p])
             IN /\ len(msgs'[p]) = TagLength
                /\ VisibleBytes(heap', msgs'[p])
                       = SubSeq(input, Len(input) - TagLength + 1, Len(input))
                /\ msgs'[d].live
                /\ msgs'[d].bytes.arena # msgs'[p].bytes.arena
                /\ len(msgs'[d]) = Last(hist').pre - NonceLength - TagLength]_vars

\* a ciphertext with a plaintext of two bytes or more has been decrypted
C38_Witness ==
    /\ Len(hist) >= 1
    /\ Last(hist).op = "decrypt"
    /\ Last(hist).ret[1] = "msg"
    /\ Last(hist).pre >= NonceLength + TagLength + 2
    /\ Last(hist).post = TagLength
    /\ Last(hist).dst # Last(hist).m

\* this step is m.appendMessage(m) on the message in variable i, and it
\* returned without error
SelfAppended(i) ==
    /\ Stepped("appendMessage")
    /\ Last(hist').m = i
    /\ Last(hist').args[1] = i
    /\ Last(hist').ret = Void

\* C39: m.appendMessage(m) on a message of length L leaves m with length
\* 2*L and with its previous visible bytes repeated twice, whether the
\* append grows in place or reallocates.
C39_SelfAppendDoubles ==
    [][\A i \in Slots :
           SelfAppended(i) =>
               /\ len(msgs'[i]) = 2 * len(msgs[i])
               /\ VisibleBytes(heap', msgs'[i])
                      = VisibleBytes(heap, msgs[i]) \o VisibleBytes(heap, msgs[i])]_vars

====
